---------------------------- MODULE Spec2Model ----------------------------
(***************************************************************************)
(* A model of epurer (mac-dev-clean): the clean command's orchestration    *)
(* of the registered cleaners (cmd main.go, runClean), the cleaners' Scan  *)
(* and Clean (internal/cleaner), the concurrent pattern scanner            *)
(* (internal/scanner) and the two directory size aggregators.              *)
(*                                                                         *)
(* Four state machines share the module's variables; each specification    *)
(* moves its own variables and leaves the others at their idle values:     *)
(*   Spec       runClean: detect, scan, estimate, confirm, clean           *)
(*   SpecClean  one call of Cleaner.Clean on an arbitrary target list      *)
(*   SpecScan   one call of Scanner.FindByPattern (SpecScanFair: with the  *)
(*              scheduler's fairness)                                      *)
(*   SpecSize   one call of Scanner.calculateDirSize beside GetDirSize     *)
(***************************************************************************)
EXTENDS Integers, Sequences, FiniteSets, TLC

VARIABLES
    \* ---- runClean (src/unnamed/part_008) ----
    cleanLevel,       \* cfg.CleanLevel, the parsed --level flag
    dryRun,           \* the --dry-run flag
    interactive,      \* the --interactive flag
    cleaners,         \* the registry after initAllCleaners and the domain filter
    pc,               \* where runClean stands
    idx,              \* position of the detect/scan loop in cleaners
    detected,         \* the map detected: names whose Detect returned true
    targetsByDomain,  \* the map targetsByDomain: name -> targets
    allResults,       \* the slice allResults
    cleanedDomains,   \* buckets the clean loop has already visited
    scanCalls,        \* names whose Scan has been called
    cleanCalls,       \* names whose Clean has been called
    attempted,        \* targets whose removal a Clean call has attempted
    removed,          \* paths handed to os.RemoveAll
    commands,         \* external destructive commands run
    confirmation,     \* "none", "yes" or "no": the operator's answer
    undetected,       \* names whose Detect returned false or an error
    scanFailed,       \* names whose Scan returned an error
    failures,         \* <<name, k>>: the removal of target k of that bucket failed
    resultOwner,      \* resultOwner[j]: the cleaner whose Clean returned allResults[j]
    scanFound,        \* names whose Scan returned a non-empty list
    \* ---- one call of Cleaner.Clean (src/unnamed/part_002, line 37) ----
    callCleaner,      \* the cleaner whose Clean is called
    callTargets,      \* the argument targets
    callDryRun,       \* the argument dryRun
    callPos,          \* position of the loop over targets
    callResults,      \* the slice results
    callPc,           \* "idle", "loop" or "returned"
    callErr,          \* the error returned: "nil" or "ctx"
    ctxDone,          \* the context passed to Clean has been cancelled
    callRemoved,      \* paths handed to os.RemoveAll by this call
    callCommands,     \* external destructive commands run by this call
    \* ---- Scanner.FindByPattern (src/unnamed/part_001) ----
    workers,          \* Scanner.workers
    searchDirs,       \* Scanner.searchDirs
    pattern,          \* the pattern of the running FindByPattern call
    scanPc,           \* where FindByPattern's goroutine stands
    dirIdx,           \* position of its loop over searchDirs
    wgCount,          \* the WaitGroup counter
    semCount,         \* tokens held in the semaphore channel
    taskPc,           \* taskPc[i]: where the walk of searchDirs[i] stands
    taskPos,          \* taskPos[i]: the entry WalkDir is visiting, by rank
    results,          \* the buffered channel results
    chanClosed,       \* close(results) has run
    scanCtxDone,      \* the context passed to FindByPattern is cancelled
    sentCount,        \* sentCount[e]: results sent for entry e
    observed,         \* tasks that have taken a <-ctx.Done() branch
    \* ---- Scanner.calculateDirSize (src/unnamed/part_001) ----
    snapshot,         \* the entries filepath.Walk visits, in order
    walkPos,          \* the entry the walk is at
    size,             \* the shared total
    muHeld,           \* mu is locked
    adderPc,          \* adderPc[k]: where the goroutine started for entry k stands
    adderTmp,         \* adderTmp[k]: the value it read from size
    sizeSem,          \* tokens held in the semaphore channel
    sizeWg,           \* the WaitGroup counter
    sizePc,           \* "walk", "wait" or "returned"
    sizeReturned,     \* the total calculateDirSize returned
    addCount,         \* addCount[k]: times the size of entry k was added
    peak,             \* the largest number of adders in flight so far
    \* ---- CleanLevel.AllowsSafety (src/internal/cleaner/mobile.go) ----
    gateLevel,        \* the receiver cl, any int
    gateSafety,       \* the argument safety, any int
    gateAsked,        \* the call has been made
    gateAnswer,       \* the bool it returned
    \* ---- Scanner.SetWorkers (src/unnamed/part_001) ----
    calls,            \* the arguments of the SetWorkers calls made so far
    \* ---- the commands clean, report and smart (src/unnamed/part_008) ----
    command,          \* "clean", "report" or "smart"
    verbose,          \* the --verbose flag
    runDry,           \* the --dry-run flag of the command
    runInteractive,   \* the --interactive flag of the command
    runLevel,         \* cfg.CleanLevel of the command
    runCleaners,      \* the slice cleaners of the command
    runIdx,           \* position of its detect/scan loop
    runPc,            \* where the command stands
    runTargets,       \* its map targetsByDomain
    collectorErrors,  \* <<kind, name>>: Detect or Scan of name returned an error
    warnings,         \* <<kind, name>>: a warning printed for that error
    runResults,       \* its slice allResults
    runCleaned,       \* buckets its clean loop has visited
    runCleanCalls,    \* names whose Clean the command has called
    runRemoved,       \* paths removed and destructive commands run
    partials,         \* results that came back from Clean with an error
    runReturn,        \* what the command returned: "none", "nil" or "error"
    levelFlag,        \* the string given to --level
    \* ---- NewScannerWithDirs and AddSearchDir (src/unnamed/part_001) ----
    addErr,           \* what the last AddSearchDir call returned
    \* ---- utils.GetDirSize (src/pkg/utils/filesystem.go) ----
    gdWalk,           \* the callback invocations of filepath.Walk(path)
    gdPc,             \* "idle" or "returned"
    gdSize,           \* the size GetDirSize returned
    gdErr,            \* the error GetDirSize returned
    \* ---- the TUI model (src/internal/tui/tui.go) ----
    state,            \* m.state
    items,            \* m.items: the targets and the selected flag of each
    cursor,           \* m.list.Index()
    cleaning,         \* m.cleaning
    cleanIndex,       \* m.cleanIndex
    totalItems,       \* m.totalItems
    cleanedSize,      \* m.cleanedSize
    quitting,         \* m.quitting
    inFlight,         \* commands returned by cleanNext whose message is due
    lastMsg           \* the message Update handled last

ovars == <<cleanLevel, dryRun, interactive, cleaners, pc, idx, detected,
           targetsByDomain, allResults, cleanedDomains, scanCalls,
           cleanCalls, attempted, removed, commands, confirmation,
           undetected, scanFailed, failures, resultOwner, scanFound>>

cvars == <<callCleaner, callTargets, callDryRun, callPos, callResults, callPc,
           callErr, ctxDone, callRemoved, callCommands>>

svars == <<workers, searchDirs, pattern, scanPc, dirIdx, wgCount, semCount,
           taskPc, taskPos, results, chanClosed, scanCtxDone, sentCount,
           observed>>

zvars == <<snapshot, walkPos, size, muHeld, adderPc, adderTmp, sizeSem, sizeWg,
           sizePc, sizeReturned, addCount, peak>>

gvars == <<gateLevel, gateSafety, gateAsked, gateAnswer>>

wvars == <<calls>>

rvars == <<command, verbose, runDry, runInteractive, runLevel, runCleaners,
           runIdx, runPc, runTargets, collectorErrors, warnings, runResults,
           runCleaned, runCleanCalls, runRemoved, partials, runReturn>>

xvars == <<gvars, wvars, rvars>>

pvars == <<levelFlag>>

avars == <<addErr>>

dvars == <<gdWalk, gdPc, gdSize, gdErr>>

tvars == <<state, items, cursor, cleaning, cleanIndex, totalItems,
           cleanedSize, quitting, inFlight, lastMsg>>

yvars == <<pvars, avars, dvars, tvars>>

vars == <<ovars, cvars, svars, zvars, xvars, yvars>>

-----------------------------------------------------------------------------
(* config: SafetyLevel, CleanLevel, AllowsSafety                            *)

Safe == 0
Moderate == 1
Dangerous == 2
SafetyLevels == {Safe, Moderate, Dangerous}

Conservative == 0
Standard == 1
Aggressive == 2
CleanLevels == {Conservative, Standard, Aggressive}

\* Variant: Standard permits what Conservative permits.
StandardAsConservative(cl, safety) ==
    CASE cl = Conservative -> safety = Safe
      [] cl = Standard -> safety = Safe
      [] cl = Aggressive -> TRUE
      [] OTHER -> FALSE

\* Variant: the default branch permits.
FailOpen(cl, safety) ==
    CASE cl = Conservative -> safety = Safe
      [] cl = Standard -> safety = Safe \/ safety = Moderate
      [] cl = Aggressive -> TRUE
      [] OTHER -> TRUE

\* func (cl CleanLevel) AllowsSafety(safety SafetyLevel) bool
AllowsSafety(cl, safety) ==
    CASE cl = Conservative -> safety = Safe
      [] cl = Standard -> safety = Safe \/ safety = Moderate
      [] cl = Aggressive -> TRUE
      [] OTHER -> FALSE

\* Strings a user may give to --level: the three level names, the empty
\* string, and names that differ from a level name by case or by a space.
LevelFlags ==
    {"conservative", "standard", "aggressive", "", "Standard", "AGGRESSIVE",
     "conservative ", "fast"}

\* Variant: the level names are matched whatever the case of their letters.
ParseFolded(s) ==
    CASE s = "conservative" -> [level |-> Conservative, err |-> "nil"]
      [] s \in {"standard", "Standard"} -> [level |-> Standard, err |-> "nil"]
      [] s \in {"aggressive", "AGGRESSIVE"} -> [level |-> Aggressive, err |-> "nil"]
      [] OTHER -> [level |-> Standard, err |-> "invalid clean level"]

\* func ParseCleanLevel(s string) (CleanLevel, error)
ParseCleanLevel(s) ==
    CASE s = "conservative" -> [level |-> Conservative, err |-> "nil"]
      [] s = "standard" -> [level |-> Standard, err |-> "nil"]
      [] s = "aggressive" -> [level |-> Aggressive, err |-> "nil"]
      [] OTHER -> [level |-> Standard, err |-> "invalid clean level"]

-----------------------------------------------------------------------------
(* The registry: initAllCleaners' order, each cleaner known by its Name().  *)

AllCleaners ==
    << "Trash", "System Caches", "System Logs", "Temp Files", "DNS Cache",
       "Homebrew Cache", "Xcode DerivedData", "Launchpad Database",
       "iOS Backups", "Frontend", "Backend", "Mobile", "DevOps", "Data/ML" >>

CleanerNames == {AllCleaners[k] : k \in 1..Len(AllCleaners)}

\* filterCleanersByDomain with every requested domain an exact cleaner name
\* (the direct match cleanerName == requestedDomain): the registry keeps its
\* order and holds the named cleaners.
filterCleanersByDomain(all, domains) ==
    SelectSeq(all, LAMBDA c : c \in domains)

-----------------------------------------------------------------------------
(* Scan: what each cleaner looks for. A source is one append site of a     *)
(* Scan method: the path it reports, the SafetyLevel it tags, the level    *)
(* check (cfg.CleanLevel.AllowsSafety) that guards it, if any, and whether  *)
(* it is reported whatever the filesystem holds. size is the byte size the *)
(* filesystem gives that path in this model (0 where the code writes 0).   *)
(* Sites of one Scan method with the same tag and the same guard are       *)
(* represented by one source.                                              *)

Src(path, safety, gated, gate, bytes, always) ==
    [path |-> path, safety |-> safety, gated |-> gated, gate |-> gate,
     size |-> bytes, always |-> always]

SystemSources(c) ==
    CASE c = "Trash" ->
           << Src("~/.Trash", Safe, FALSE, Safe, 1, FALSE) >>
      [] c = "System Caches" ->
           << Src("~/Library/Caches", Safe, FALSE, Safe, 2, FALSE),
              Src("/Library/Caches", Moderate, TRUE, Moderate, 1, FALSE) >>
      [] c = "System Logs" ->
           << Src("/private/var/log", Moderate, TRUE, Moderate, 2, FALSE) >>
      [] c = "Temp Files" ->
           << Src("/private/tmp", Safe, FALSE, Safe, 2, FALSE) >>
      [] c = "DNS Cache" ->
           << Src("system:dns_cache", Safe, FALSE, Safe, 0, TRUE) >>
      [] c = "Homebrew Cache" ->
           << Src("brew --cache", Safe, FALSE, Safe, 2, FALSE) >>
      [] c = "Xcode DerivedData" ->
           << Src("~/Library/Developer/Xcode/DerivedData", Safe, FALSE, Safe, 2, FALSE),
              Src("~/Library/Developer/Xcode/Archives", Moderate, FALSE, Safe, 1, FALSE) >>
      [] c = "Launchpad Database" ->
           << Src("~/Library/Application Support/Dock", Dangerous, FALSE, Safe, 0, FALSE) >>
      [] c = "iOS Backups" ->
           << Src("~/Library/Application Support/MobileSync/Backup",
                  Dangerous, TRUE, Dangerous, 2, FALSE) >>
      [] OTHER -> << >>

FrontendSources ==
    << Src("~/.npm", Safe, FALSE, Safe, 2, FALSE),
       Src("proj/node_modules", Moderate, TRUE, Moderate, 1, FALSE) >>

BackendSources ==
    << Src("proj/__pycache__", Safe, FALSE, Safe, 1, FALSE),
       Src("~/.m2/repository", Moderate, TRUE, Moderate, 2, FALSE) >>

MobileSources ==
    << Src("~/Library/Developer/Xcode/DerivedData", Safe, FALSE, Safe, 2, FALSE),
       Src("~/Library/Developer/Xcode/Archives", Moderate, TRUE, Moderate, 1, FALSE) >>

DevOpsSources ==
    << Src("docker:images:dangling", Moderate, TRUE, Moderate, 1, FALSE),
       Src("~/.kube/cache", Safe, FALSE, Safe, 2, FALSE),
       Src("docker:volumes:unused", Dangerous, TRUE, Dangerous, 1, FALSE) >>

DataMLSources ==
    << Src("~/.conda/pkgs", Safe, FALSE, Safe, 1, FALSE),
       Src("~/Library/Jupyter/kernels", Moderate, FALSE, Safe, 2, FALSE),
       Src("proj/mlruns", Moderate, TRUE, Moderate, 1, FALSE) >>

SourcesOf(c) ==
    CASE c = "Frontend" -> FrontendSources
      [] c = "Backend" -> BackendSources
      [] c = "Mobile" -> MobileSources
      [] c = "DevOps" -> DevOpsSources
      [] c = "Data/ML" -> DataMLSources
      [] OTHER -> SystemSources(c)

PathsOf(c) == {SourcesOf(c)[k].path : k \in 1..Len(SourcesOf(c))}

\* The filesystems a Scan may meet: which of its paths exist with a size > 0.
Presences(c) ==
    {P \in SUBSET PathsOf(c) :
        \A k \in 1..Len(SourcesOf(c)) :
            SourcesOf(c)[k].always => SourcesOf(c)[k].path \in P}

CleanTarget(path, sizeBytes, safety) ==
    [path |-> path, sizeBytes |-> sizeBytes, safety |-> safety]

\* Whether a source's guard lets it through at CleanLevel cl.
PassesGate(cl, s) == ~s.gated \/ AllowsSafety(cl, s.gate)

RECURSIVE ScanFrom(_, _, _, _)
ScanFrom(srcs, k, cl, present) ==
    IF k > Len(srcs) THEN << >>
    ELSE LET s == srcs[k]
             rest == ScanFrom(srcs, k + 1, cl, present)
         IN IF s.path \in present /\ PassesGate(cl, s)
            THEN << CleanTarget(s.path, s.size, s.safety) >> \o rest
            ELSE rest

\* Cleaner.Scan(ctx, cfg) on a filesystem holding the paths in present: the
\* targets in the order the method appends them.
Scan(c, cl, present) == ScanFrom(SourcesOf(c), 1, cl, present)

\* Scan methods with an error return (os.UserHomeDir, brew --cache).
ScanMayFail(c) == c \notin {"System Logs", "Temp Files", "DNS Cache"}

\* Detect: the cleaners that are always applicable return (true, nil); the
\* others probe the machine. The interface returns (bool, error).
AlwaysDetected ==
    {"DNS Cache", "Trash", "System Caches", "System Logs", "Temp Files",
     "Launchpad Database", "iOS Backups"}

DetectOutcomes(c) ==
    IF c \in AlwaysDetected THEN {"true"} ELSE {"true", "false", "error"}


-----------------------------------------------------------------------------
(* Clean: what each cleaner does with one target.                          *)

\* Variant: the dryRun argument is ignored.
RemoveEvenInDryRun(path, dry, fails) == [err |-> fails, removed |-> {path}]

\* utils.SafeRemove(path, dryRun) where os.RemoveAll would fail iff fails:
\* the error it returns and the paths it hands to os.RemoveAll.
SafeRemove(path, dry, fails) ==
    [err |-> ~dry /\ fails, removed |-> IF dry THEN {} ELSE {path}]

CleanResult(target, success, bytesFreed, error) ==
    [target |-> target, success |-> success, bytesFreed |-> bytesFreed,
     error |-> error]

Outcome(result, rm, cmds) == [result |-> result, removed |-> rm, commands |-> cmds]

Err(failed) == IF failed THEN "error" ELSE "nil"

\* The loop body of FrontendCleaner.Clean, BackendCleaner.Clean,
\* MobileCleaner.Clean and DataMLCleaner.Clean (the same text in each).
CleanOnePath(t, dry, fails) ==
    IF ~dry
    THEN LET r == SafeRemove(t.path, FALSE, fails)
         IN Outcome(CleanResult(t, ~r.err, IF r.err THEN 0 ELSE t.sizeBytes, Err(r.err)),
                    r.removed, {})
    ELSE Outcome(CleanResult(t, TRUE, t.sizeBytes, "nil"), {}, {})

DockerTargets ==
    {"docker:images:dangling", "docker:containers:stopped", "docker:buildcache",
     "docker:volumes:unused"}

\* strings.HasPrefix(target.Path, "docker:") over the paths of this model.
DockerPrefixed == DockerTargets \cup {"docker:other"}

IsDockerPath(path) == path \in DockerPrefixed

\* DevOpsCleaner.cleanDockerTarget: the docker prune command it runs, if any,
\* and whether it returns an error.
cleanDockerTarget(path, dry, fails) ==
    IF dry THEN [err |-> FALSE, commands |-> {}]
    ELSE IF path \in DockerTargets THEN [err |-> fails, commands |-> {path}]
    ELSE [err |-> FALSE, commands |-> {}]

\* The loop body of DevOpsCleaner.Clean.
CleanOneDevOps(t, dry, fails) ==
    IF IsDockerPath(t.path)
    THEN LET r == cleanDockerTarget(t.path, dry, fails)
         IN Outcome(CleanResult(t, ~r.err, IF r.err THEN 0 ELSE t.sizeBytes, Err(r.err)),
                    {}, r.commands)
    ELSE CleanOnePath(t, dry, fails)

\* SystemCleaner.cleanDNSCache and cleanHomebrew: nothing in a dry run,
\* otherwise the command, which may fail.
cleanDNSCache(dry, fails) ==
    IF dry THEN [err |-> FALSE, commands |-> {}]
    ELSE [err |-> fails, commands |-> {"dscacheutil -flushcache"}]

cleanHomebrew(dry, fails) ==
    IF dry THEN [err |-> FALSE, commands |-> {}]
    ELSE [err |-> fails, commands |-> {"brew cleanup --prune=all"}]

\* The loop body of SystemCleaner.Clean for cleaner type c.
CleanOneSystem(c, t, dry, fails) ==
    CASE c = "DNS Cache" ->
           LET r == cleanDNSCache(dry, fails)
           IN Outcome(CleanResult(t, ~r.err, 0, Err(r.err)), {}, r.commands)
      [] c = "Homebrew Cache" ->
           LET r == cleanHomebrew(dry, fails)
           IN Outcome(CleanResult(t, ~r.err, t.sizeBytes, Err(r.err)), {}, r.commands)
      [] OTHER ->
           LET r == SafeRemove(t.path, dry, fails)
           IN Outcome(CleanResult(t, ~r.err, IF ~r.err THEN t.sizeBytes ELSE 0, Err(r.err)),
                      r.removed, {})

SimpleCleaners == {"Frontend", "Backend", "Mobile", "Data/ML"}

\* One iteration of cleaner c's Clean loop on target t; fails: the removal
\* or command, if one is made, returns an error.
CleanOne(c, t, dry, fails) ==
    CASE c \in SimpleCleaners -> CleanOnePath(t, dry, fails)
      [] c = "DevOps" -> CleanOneDevOps(t, dry, fails)
      [] OTHER -> CleanOneSystem(c, t, dry, fails)

\* The cleaners whose Clean loop checks ctx.Done() after each target;
\* SystemCleaner.Clean never looks at ctx.
ChecksContext(c) == c \in SimpleCleaners \/ c = "DevOps"


\* Variant: the loop returns at the first failed removal.
RECURSIVE StopAtFirstFailure(_, _, _, _, _)
StopAtFirstFailure(c, targets, k, dry, failset) ==
    IF k > Len(targets)
    THEN [results |-> << >>, done |-> {}, failed |-> {}, removed |-> {}, commands |-> {}]
    ELSE LET o == CleanOne(c, targets[k], dry, k \in failset)
             rest == IF o.result.success
                     THEN StopAtFirstFailure(c, targets, k + 1, dry, failset)
                     ELSE [results |-> << >>, done |-> {}, failed |-> {},
                           removed |-> {}, commands |-> {}]
         IN [results |-> << o.result >> \o rest.results,
             done |-> {k} \cup rest.done,
             failed |-> (IF k \in failset THEN {k} ELSE {}) \cup rest.failed,
             removed |-> o.removed \cup rest.removed,
             commands |-> o.commands \cup rest.commands]

\* A whole Clean call whose context is never cancelled (runClean passes
\* context.Background()): the loop over targets from index k on. failset
\* holds the indices whose removal fails. Returns the results in order, the
\* indices processed and the effects.
RECURSIVE CleanLoop(_, _, _, _, _)
CleanLoop(c, targets, k, dry, failset) ==
    IF k > Len(targets)
    THEN [results |-> << >>, done |-> {}, failed |-> {}, removed |-> {}, commands |-> {}]
    ELSE LET o == CleanOne(c, targets[k], dry, k \in failset)
             rest == CleanLoop(c, targets, k + 1, dry, failset)
         IN [results |-> << o.result >> \o rest.results,
             done |-> {k} \cup rest.done,
             failed |-> (IF k \in failset THEN {k} ELSE {}) \cup rest.failed,
             removed |-> o.removed \cup rest.removed,
             commands |-> o.commands \cup rest.commands]

\* What one Clean call can return and do: in a real run any of the
\* removals may fail; a dry run makes none.
CleanOutcomes(c, targets, dry) ==
    {CleanLoop(c, targets, 1, dry, failset) :
        failset \in (IF dry THEN {{}} ELSE SUBSET (1..Len(targets)))}

-----------------------------------------------------------------------------
(* runClean                                                                *)

MaxCleaners == 2

\* The machines considered hold at most MaxTargets cleanable items in all.
MaxTargets == 2

Registries ==
    {filterCleanersByDomain(AllCleaners, D) :
        D \in {S \in SUBSET CleanerNames : Cardinality(S) <= MaxCleaners}}

InitOrch ==
    /\ cleanLevel \in CleanLevels
    /\ dryRun \in BOOLEAN
    /\ interactive \in BOOLEAN
    /\ cleaners \in Registries
    /\ pc = "scan"
    /\ idx = 1
    /\ detected = {}
    /\ targetsByDomain = << >>
    /\ allResults = << >>
    /\ cleanedDomains = {}
    /\ scanCalls = {}
    /\ cleanCalls = {}
    /\ attempted = {}
    /\ removed = {}
    /\ commands = {}
    /\ confirmation = "none"
    /\ undetected = {}
    /\ scanFailed = {}
    /\ failures = {}
    /\ resultOwner = << >>
    /\ scanFound = {}

\* Variant: the result of Detect is ignored.
ProceedsAlways(d) == TRUE

\* if err != nil { continue }; if !isDetected { continue }
ProceedsToScan(d) == d = "true"

\* Variant: a Scan error ends the loop (break).
BreakAfterScanError(i, n) == n + 1

\* The index the detect/scan loop goes to after a Scan error: continue.
AfterScanError(i, n) == i + 1

\* if len(targets) > 0 { targetsByDomain[c.Name()] = targets }
StoreTargets(tbd, name, targets) ==
    IF Len(targets) > 0
    THEN [d \in DOMAIN tbd \cup {name} |-> IF d = name THEN targets ELSE tbd[d]]
    ELSE tbd

RECURSIVE SumLen(_, _)
SumLen(tbd, names) ==
    IF names = {} THEN 0
    ELSE LET n == CHOOSE x \in names : TRUE
         IN Len(tbd[n]) + SumLen(tbd, names \ {n})

\* totalTargets += len(targets) over the map.
TotalTargets(tbd) == SumLen(tbd, DOMAIN tbd)

InScanLoop == pc = "scan" /\ idx <= Len(cleaners)

DetectError ==
    /\ InScanLoop
    /\ "error" \in DetectOutcomes(cleaners[idx])
    /\ ~ProceedsToScan("error")
    /\ undetected' = undetected \cup {cleaners[idx]}
    /\ idx' = idx + 1
    /\ UNCHANGED <<cleanLevel, dryRun, interactive, cleaners, pc, detected,
                   targetsByDomain, allResults, cleanedDomains, scanCalls,
                   cleanCalls, attempted, removed, commands, confirmation,
                   scanFailed, failures, resultOwner, scanFound>>

DetectFalse ==
    /\ InScanLoop
    /\ "false" \in DetectOutcomes(cleaners[idx])
    /\ ~ProceedsToScan("false")
    /\ undetected' = undetected \cup {cleaners[idx]}
    /\ idx' = idx + 1
    /\ UNCHANGED <<cleanLevel, dryRun, interactive, cleaners, pc, detected,
                   targetsByDomain, allResults, cleanedDomains, scanCalls,
                   cleanCalls, attempted, removed, commands, confirmation,
                   scanFailed, failures, resultOwner, scanFound>>

ScanError ==
    /\ InScanLoop
    /\ \E d \in DetectOutcomes(cleaners[idx]) :
          /\ ProceedsToScan(d)
          /\ undetected' = IF d = "true" THEN undetected
                           ELSE undetected \cup {cleaners[idx]}
    /\ ScanMayFail(cleaners[idx])
    /\ detected' = detected \cup {cleaners[idx]}
    /\ scanCalls' = scanCalls \cup {cleaners[idx]}
    /\ scanFailed' = scanFailed \cup {cleaners[idx]}
    /\ idx' = AfterScanError(idx, Len(cleaners))
    /\ UNCHANGED <<cleanLevel, dryRun, interactive, cleaners, pc,
                   targetsByDomain, allResults, cleanedDomains,
                   cleanCalls, attempted, removed, commands, confirmation,
                   failures, resultOwner, scanFound>>

ScanOk ==
    /\ InScanLoop
    /\ \E d \in DetectOutcomes(cleaners[idx]) :
          /\ ProceedsToScan(d)
          /\ undetected' = IF d = "true" THEN undetected
                           ELSE undetected \cup {cleaners[idx]}
    /\ detected' = detected \cup {cleaners[idx]}
    /\ scanCalls' = scanCalls \cup {cleaners[idx]}
    /\ \E present \in Presences(cleaners[idx]) :
          /\ TotalTargets(targetsByDomain)
                + Len(Scan(cleaners[idx], cleanLevel, present)) <= MaxTargets
          /\ targetsByDomain' =
              StoreTargets(targetsByDomain, cleaners[idx],
                           Scan(cleaners[idx], cleanLevel, present))
          /\ scanFound' =
              IF Len(Scan(cleaners[idx], cleanLevel, present)) > 0
              THEN scanFound \cup {cleaners[idx]} ELSE scanFound
    /\ idx' = idx + 1
    /\ UNCHANGED <<cleanLevel, dryRun, interactive, cleaners, pc,
                   allResults, cleanedDomains,
                   cleanCalls, attempted, removed, commands, confirmation,
                   scanFailed, failures, resultOwner>>

\* Variant: the prompt is never shown.
NeverAsks(inter, dry) == FALSE

\* if interactive && !dryRun
NeedsConfirmation(inter, dry) == inter /\ ~dry

\* domains := []string{...} of PrintEstimation: the buckets it looks up.
EstimationDomains == {"Frontend", "Backend", "Mobile", "DevOps", "Data/ML", "System"}

\* totalItems of PrintEstimation: len(targets) over the buckets it looks up.
EstimationItems(tbd) == SumLen(tbd, DOMAIN tbd \cap EstimationDomains)

RECURSIVE BytesOf(_, _)
\* domainSize += target.SizeBytes over targets from rank k on.
BytesOf(targets, k) ==
    IF k > Len(targets) THEN 0
    ELSE targets[k].sizeBytes + BytesOf(targets, k + 1)

RECURSIVE SumBytes(_, _)
SumBytes(tbd, names) ==
    IF names = {} THEN 0
    ELSE LET n == CHOOSE x \in names : TRUE
         IN BytesOf(tbd[n], 1) + SumBytes(tbd, names \ {n})

\* totalSize of PrintEstimation.
EstimationBytes(tbd) == SumBytes(tbd, DOMAIN tbd \cap EstimationDomains)

ScanLoopDone == pc = "scan" /\ idx > Len(cleaners)

NothingToClean ==
    /\ ScanLoopDone
    /\ TotalTargets(targetsByDomain) = 0
    /\ pc' = "done"
    /\ UNCHANGED <<cleanLevel, dryRun, interactive, cleaners, idx, detected,
                   targetsByDomain, allResults, cleanedDomains, scanCalls,
                   cleanCalls, attempted, removed, commands, confirmation,
                   undetected, scanFailed, failures, resultOwner, scanFound>>

AskConfirmation ==
    /\ ScanLoopDone
    /\ TotalTargets(targetsByDomain) # 0
    /\ NeedsConfirmation(interactive, dryRun)
    /\ pc' = "confirm"
    /\ UNCHANGED <<cleanLevel, dryRun, interactive, cleaners, idx, detected,
                   targetsByDomain, allResults, cleanedDomains, scanCalls,
                   cleanCalls, attempted, removed, commands, confirmation,
                   undetected, scanFailed, failures, resultOwner, scanFound>>

NoConfirmationNeeded ==
    /\ ScanLoopDone
    /\ TotalTargets(targetsByDomain) # 0
    /\ ~NeedsConfirmation(interactive, dryRun)
    /\ pc' = "clean"
    /\ UNCHANGED <<cleanLevel, dryRun, interactive, cleaners, idx, detected,
                   targetsByDomain, allResults, cleanedDomains, scanCalls,
                   cleanCalls, attempted, removed, commands, confirmation,
                   undetected, scanFailed, failures, resultOwner, scanFound>>

\* What the operator may type at the prompt (one token read by Scanln).
Responses == {"y", "Y", "yes", "YES", "Yes", "n", "N", "no", "", "ok"}

\* strings.ToLower(strings.TrimSpace(response)) on those responses.
ToLower(r) ==
    CASE r = "Y" -> "y"
      [] r \in {"YES", "Yes"} -> "yes"
      [] r = "N" -> "n"
      [] OTHER -> r

\* Reporter.AskConfirmation: return response == "y" || response == "yes"
Confirms(r) == ToLower(r) = "y" \/ ToLower(r) = "yes"

\* if !rep.AskConfirmation(...) is false: go on to the clean loop.
ConfirmYes ==
    /\ pc = "confirm"
    /\ \E r \in Responses : Confirms(r)
    /\ confirmation' = "yes"
    /\ pc' = "clean"
    /\ UNCHANGED <<cleanLevel, dryRun, interactive, cleaners, idx, detected,
                   targetsByDomain, allResults, cleanedDomains, scanCalls,
                   cleanCalls, attempted, removed, commands,
                   undetected, scanFailed, failures, resultOwner, scanFound>>

\* if !rep.AskConfirmation(...) { rep.PrintInfo("Cancelled"); return nil }
ConfirmNo ==
    /\ pc = "confirm"
    /\ \E r \in Responses : ~Confirms(r)
    /\ confirmation' = "no"
    /\ pc' = "done"
    /\ UNCHANGED <<cleanLevel, dryRun, interactive, cleaners, idx, detected,
                   targetsByDomain, allResults, cleanedDomains, scanCalls,
                   cleanCalls, attempted, removed, commands,
                   undetected, scanFailed, failures, resultOwner, scanFound>>

\* for _, c := range cleaners { if c.Name() == domain { ...; break } }
FindCleaner(reg, domain) ==
    IF \E j \in 1..Len(reg) : reg[j] = domain
    THEN reg[CHOOSE j \in 1..Len(reg) :
                 reg[j] = domain /\ \A h \in 1..(j - 1) : reg[h] # domain]
    ELSE "nil"

\* One iteration of the loop over targetsByDomain (Go ranges over a map in
\* no fixed order): the bucket's cleaner is looked up by name and its Clean
\* is called with the whole bucket (a bucket without cleaner is skipped).
\* After the last bucket the results are
\* printed and runClean returns.
CleanBucket ==
    /\ pc = "clean"
    /\ \E domain \in (DOMAIN targetsByDomain) \ cleanedDomains :
          LET c == FindCleaner(cleaners, domain)
              targets == targetsByDomain[domain]
          IN /\ IF c = "nil"
                THEN UNCHANGED <<allResults, resultOwner, attempted, failures,
                                 removed, commands, cleanCalls>>
                ELSE /\ \E r \in CleanOutcomes(c, targets, dryRun) :
                           /\ allResults' = allResults \o r.results
                           /\ resultOwner' =
                                 resultOwner \o [j \in 1..Len(r.results) |-> c]
                           /\ attempted' = attempted \cup {<<domain, k>> : k \in r.done}
                           /\ failures' = failures \cup {<<domain, k>> : k \in r.failed}
                           /\ removed' = removed \cup r.removed
                           /\ commands' = commands \cup r.commands
                     /\ cleanCalls' = cleanCalls \cup {c}
             /\ cleanedDomains' = cleanedDomains \cup {domain}
             /\ pc' = IF cleanedDomains \cup {domain} = DOMAIN targetsByDomain
                      THEN "done" ELSE "clean"
    /\ UNCHANGED <<cleanLevel, dryRun, interactive, cleaners, idx, detected,
                   targetsByDomain, scanCalls, confirmation,
                   undetected, scanFailed, scanFound>>

-----------------------------------------------------------------------------
(* One call of Clean, target by target, with a context that may be         *)
(* cancelled before the call or while it runs.                             *)

MaxLen == 2

TargetPaths == {"/proj/node_modules", "docker:images:dangling", "docker:other"}
TargetSizes == {0, 2}

\* The targets a caller may pass: Clean reads only Path and SizeBytes.
AnyTarget == {CleanTarget(p, z, Safe) : p \in TargetPaths, z \in TargetSizes}

RECURSIVE SeqsUpTo(_, _)
SeqsUpTo(S, n) ==
    IF n = 0 THEN {<< >>}
    ELSE LET shorter == SeqsUpTo(S, n - 1)
         IN shorter \cup {Append(q, x) : q \in {r \in shorter : Len(r) = n - 1}, x \in S}

InitCall ==
    /\ callCleaner \in CleanerNames
    /\ callTargets \in SeqsUpTo(AnyTarget, MaxLen)
    /\ callDryRun \in BOOLEAN
    /\ callPos = 1
    /\ callResults = << >>
    /\ callPc = "loop"
    /\ callErr = "nil"
    /\ ctxDone \in BOOLEAN
    /\ callRemoved = {}
    /\ callCommands = {}

\* Variant: the result of a failed removal is not appended.
DropFailed(res, r) == IF r.success THEN Append(res, r) ELSE res

\* results = append(results, result)
Appended(res, r) == Append(res, r)

\* select { case <-ctx.Done(): return results, ctx.Err(); default: } at the
\* end of an iteration: TRUE iff cleaner c returns there.
ReturnsOnDone(c, done) == ChecksContext(c) /\ done

\* One iteration of the loop over targets.
CleanIteration ==
    /\ callPc = "loop"
    /\ callPos <= Len(callTargets)
    /\ \E fails \in (IF callDryRun THEN {FALSE} ELSE BOOLEAN) :
          LET o == CleanOne(callCleaner, callTargets[callPos], callDryRun, fails)
          IN /\ callResults' = Appended(callResults, o.result)
             /\ callRemoved' = callRemoved \cup o.removed
             /\ callCommands' = callCommands \cup o.commands
    /\ IF ReturnsOnDone(callCleaner, ctxDone)
       THEN callPc' = "returned" /\ callErr' = "ctx" /\ callPos' = callPos
       ELSE callPc' = "loop" /\ callErr' = callErr /\ callPos' = callPos + 1
    /\ UNCHANGED <<callCleaner, callTargets, callDryRun, ctxDone>>

\* return results, nil
CleanReturn ==
    /\ callPc = "loop"
    /\ callPos > Len(callTargets)
    /\ callPc' = "returned"
    /\ callErr' = "nil"
    /\ UNCHANGED <<callCleaner, callTargets, callDryRun, callPos, callResults,
                   ctxDone, callRemoved, callCommands>>

\* The caller cancels the context while Clean runs.
Cancel ==
    /\ callPc = "loop"
    /\ ~ctxDone
    /\ ctxDone' = TRUE
    /\ UNCHANGED <<callCleaner, callTargets, callDryRun, callPos, callResults,
                   callPc, callErr, callRemoved, callCommands>>

-----------------------------------------------------------------------------
(* The pattern scanner: the file system it walks.                          *)

\* A path is the sequence of its components.
Projects == <<"Projects">>
Code == <<"Code">>

Dirs ==
    {Projects,
     <<"Projects", "node_modules">>,
     <<"Projects", "node_modules", "pkg">>,
     <<"Projects", "node_modules", "pkg", "node_modules">>,
     Code,
     <<"Code", "node_modules">>}

Files == {<<"Projects", "app.log">>}

Entries == Dirs \cup Files

IsDir(e) == e \in Dirs

\* Directories whose ReadDir fails: the user may not read them.
Unreadable == {<<"Code", "node_modules">>}

\* filepath.Base
Base(e) == e[Len(e)]

\* a is a proper ancestor directory of b.
IsAncestor(a, b) == Len(a) < Len(b) /\ SubSeq(b, 1, Len(a)) = a

Patterns == {"node_modules", "*.log"}

\* filepath.Match(pattern, baseName) for the patterns and names above.
Match(pat, name) ==
    CASE pat = "*.log" -> name \in {"app.log"}
      [] OTHER -> name = pat

\* os.ReadDir sorts by file name; the names of this file system in order.
NameOrder == <<"Code", "Projects", "app.log", "node_modules", "pkg">>

NameRank(n) == CHOOSE k \in 1..Len(NameOrder) : NameOrder[k] = n

Children(e) == {x \in Entries : Len(x) = Len(e) + 1 /\ IsAncestor(e, x)}

RECURSIVE SortByName(_)
SortByName(S) ==
    IF S = {} THEN << >>
    ELSE LET first == CHOOSE x \in S :
                          \A y \in S : NameRank(Base(x)) <= NameRank(Base(y))
         IN << first >> \o SortByName(S \ {first})

RECURSIVE WalkOrder(_)
RECURSIVE WalkAll(_)
\* The paths filepath.WalkDir(root) would call the function with if nothing
\* were skipped, in the order of the calls. A directory whose ReadDir fails
\* gets two calls: one before the read, one that reports the error.
WalkOrder(root) ==
    << root >> \o (IF ~IsDir(root) THEN << >>
                   ELSE IF root \in Unreadable THEN << root >>
                   ELSE WalkAll(SortByName(Children(root))))

WalkAll(list) ==
    IF list = << >> THEN << >>
    ELSE WalkOrder(Head(list)) \o WalkAll(Tail(list))

\* WalkOrder for every directory a scanner may be rooted at.
WalkTable == [root \in Dirs |-> WalkOrder(root)]

Walk(root) == WalkTable[root]

\* Whether call k of the walk of root has err != nil: it is the second
\* call for the path of call k - 1.
CallbackErr(root, k) == k > 1 /\ Walk(root)[k] = Walk(root)[k - 1]

\* The rank after k in the walk of root when the callback returned nil.
NextEntry(root, k) == k + 1

\* The rank after k when the callback returned filepath.SkipDir for the
\* directory at rank k: the first call that is neither for an entry beneath
\* it nor the report of its ReadDir error, the directory not being read.
SkipDirTable ==
    [root \in Dirs |->
        [k \in 1..Len(WalkTable[root]) |->
            LET w == WalkTable[root]
                later == {j \in (k + 1)..Len(w) :
                             ~IsAncestor(w[k], w[j]) /\ w[j] # w[k]}
            IN IF later = {} THEN Len(w) + 1
               ELSE CHOOSE j \in later : \A h \in later : j <= h]]

NextAfterSkipDir(root, k) == SkipDirTable[root][k]

-----------------------------------------------------------------------------
(* The pattern scanner: construction, FindByPattern and walkAndMatch.      *)

DefaultWorkers == 4

MaxRoots == 2
MaxWorkers == 2

\* make(chan ScanResult, 100): the capacity of results, scaled down to the
\* number of entries of this file system so that a send can block.
ResultsCap == 1

\* The directories callers hand to NewScannerWithDirs and AddSearchDir.
RootCandidates == {Projects, <<"Projects", "node_modules", "pkg">>, Code}

\* NewScanner keeps the default directories that exist.
NewScanner == SelectSeq(<<Projects, Code>>, LAMBDA d : d \in Dirs)

\* NewScannerWithDirs keeps dirs as given.
NewScannerWithDirs(dirs) == dirs

InitScanner ==
    /\ workers = DefaultWorkers
    /\ searchDirs \in {NewScanner} \cup
                      {NewScannerWithDirs(d) : d \in SeqsUpTo(RootCandidates, MaxRoots)}
    /\ pattern = "none"
    /\ scanPc = "idle"
    /\ dirIdx = 1
    /\ wgCount = 0
    /\ semCount = 0
    /\ taskPc = << >>
    /\ taskPos = << >>
    /\ results = << >>
    /\ chanClosed = FALSE
    /\ scanCtxDone = FALSE
    /\ sentCount = [e \in Entries |-> 0]
    /\ observed = {}

\* A send on the closed channel has panicked: the process is gone.
Crashed == \E i \in DOMAIN taskPc : taskPc[i] = "panic"

\* Variant: the argument is stored whatever its sign.
SetAnyWidth(w, n) == n

\* if n > 0 { s.workers = n }: the width after SetWorkers(n) at width w.
SetWorkersTo(w, n) == IF n > 0 THEN n ELSE w

SetWorkers ==
    /\ scanPc = "idle"
    /\ \E n \in 0..MaxWorkers :
          workers' = SetWorkersTo(workers, n)
    /\ UNCHANGED <<searchDirs, pattern, scanPc, dirIdx, wgCount, semCount,
                   taskPc, taskPos, results, chanClosed, scanCtxDone, sentCount,
                   observed>>

\* os.Stat(dir) succeeds and it is a directory: append.
AddSearchDir ==
    /\ scanPc = "idle"
    /\ Len(searchDirs) < MaxRoots
    /\ \E dir \in RootCandidates :
          /\ IsDir(dir)
          /\ searchDirs' = Append(searchDirs, dir)
    /\ UNCHANGED <<workers, pattern, scanPc, dirIdx, wgCount, semCount,
                   taskPc, taskPos, results, chanClosed, scanCtxDone, sentCount,
                   observed>>

\* FindByPattern: make the channel, start the goroutine, return the channel.
FindByPattern ==
    /\ scanPc = "idle"
    /\ \E pat \in Patterns : pattern' = pat
    /\ scanPc' = "check"
    /\ taskPc' = [i \in 1..Len(searchDirs) |-> "none"]
    /\ taskPos' = [i \in 1..Len(searchDirs) |-> 1]
    /\ UNCHANGED <<workers, searchDirs, dirIdx, wgCount, semCount, results,
                   chanClosed, scanCtxDone, sentCount, observed>>

\* for _, dir := range s.searchDirs: no directory is left; go to wg.Wait().
LoopEnd ==
    /\ scanPc = "check" /\ ~Crashed
    /\ dirIdx > Len(searchDirs)
    /\ scanPc' = "wait"
    /\ UNCHANGED <<workers, searchDirs, pattern, dirIdx, wgCount, semCount,
                   taskPc, taskPos, results, chanClosed, scanCtxDone, sentCount,
                   observed>>

\* What the goroutine does at "case <-ctx.Done(): return": the deferred
\* close(results) runs, whatever the WaitGroup counter is.
ReturnOnDone(count) == TRUE

\* case <-ctx.Done(): return
LoopCancelled ==
    /\ scanPc = "check" /\ ~Crashed
    /\ dirIdx <= Len(searchDirs)
    /\ scanCtxDone
    /\ ReturnOnDone(wgCount)
    /\ chanClosed' = TRUE
    /\ scanPc' = "closed"
    /\ UNCHANGED <<workers, searchDirs, pattern, dirIdx, wgCount, semCount,
                   taskPc, taskPos, results, scanCtxDone, sentCount, observed>>

\* default: wg.Add(1)
LoopAdd ==
    /\ scanPc = "check" /\ ~Crashed
    /\ dirIdx <= Len(searchDirs)
    /\ ~scanCtxDone
    /\ wgCount' = wgCount + 1
    /\ scanPc' = "acquire"
    /\ UNCHANGED <<workers, searchDirs, pattern, dirIdx, semCount,
                   taskPc, taskPos, results, chanClosed, scanCtxDone, sentCount,
                   observed>>

\* Variant: the send on the semaphore channel never blocks.
NoLimit(count, width) == TRUE

\* semaphore <- struct{}{} on a channel of capacity s.workers holding count
\* tokens: whether the send can proceed.
CanAcquire(count, width) == count < width

\* semaphore <- struct{}{}; go func(searchDir string) {...}(dir)
Acquire ==
    /\ scanPc = "acquire" /\ ~Crashed
    /\ CanAcquire(semCount, workers)
    /\ semCount' = semCount + 1
    /\ taskPc' = [taskPc EXCEPT ![dirIdx] = "visit"]
    /\ dirIdx' = dirIdx + 1
    /\ scanPc' = "check"
    /\ UNCHANGED <<workers, searchDirs, pattern, wgCount, taskPos, results,
                   chanClosed, scanCtxDone, sentCount, observed>>

\* wg.Wait() returns; the deferred close(results) runs.
WaitDone ==
    /\ scanPc = "wait" /\ ~Crashed
    /\ wgCount = 0
    /\ chanClosed' = TRUE
    /\ scanPc' = "closed"
    /\ UNCHANGED <<workers, searchDirs, pattern, dirIdx, wgCount, semCount,
                   taskPc, taskPos, results, scanCtxDone, sentCount, observed>>

\* Variant: a returning task keeps its token.
NoRelease(count) == count

\* defer func() { <-semaphore }()
Release(count) == count - 1

\* Task i goes on to rank k of its walk, or, the walk being over, returns:
\* the deferred functions release the semaphore and call wg.Done().
GoOn(i, k) ==
    IF k > Len(Walk(searchDirs[i]))
    THEN /\ taskPc' = [taskPc EXCEPT ![i] = "returned"]
         /\ taskPos' = taskPos
         /\ semCount' = Release(semCount)
         /\ wgCount' = wgCount - 1
    ELSE /\ taskPc' = [taskPc EXCEPT ![i] = "visit"]
         /\ taskPos' = [taskPos EXCEPT ![i] = k]
         /\ UNCHANGED <<semCount, wgCount>>

\* return filepath.SkipAll
SkipAll(i) == GoOn(i, Len(Walk(searchDirs[i])) + 1)

\* The callback of walkAndMatch up to the send, for the entry task i is at.
Visit(i) ==
    /\ i \in DOMAIN taskPc /\ taskPc[i] = "visit" /\ ~Crashed
    /\ LET e == Walk(searchDirs[i])[taskPos[i]]
       IN IF scanCtxDone
          THEN /\ SkipAll(i)
               /\ observed' = observed \cup {i}
          ELSE IF CallbackErr(searchDirs[i], taskPos[i])
          THEN /\ GoOn(i, NextEntry(searchDirs[i], taskPos[i]))
               /\ UNCHANGED observed
          ELSE IF Match(pattern, Base(e))
          THEN /\ taskPc' = [taskPc EXCEPT ![i] = "send"]
               /\ UNCHANGED <<taskPos, semCount, wgCount, observed>>
          ELSE /\ GoOn(i, NextEntry(searchDirs[i], taskPos[i]))
               /\ UNCHANGED observed
    /\ UNCHANGED <<workers, searchDirs, pattern, scanPc, dirIdx, results,
                   chanClosed, scanCtxDone, sentCount>>

\* case results <- ScanResult{Path: path, Size: size}: then SkipDir for a
\* directory, nil for a file.
Send(i) ==
    /\ i \in DOMAIN taskPc /\ taskPc[i] = "send" /\ ~Crashed
    /\ ~chanClosed
    /\ Len(results) < ResultsCap
    /\ LET e == Walk(searchDirs[i])[taskPos[i]]
       IN /\ results' = Append(results, e)
          /\ sentCount' = [sentCount EXCEPT ![e] = @ + 1]
          /\ GoOn(i, IF IsDir(e) THEN NextAfterSkipDir(searchDirs[i], taskPos[i])
                     ELSE NextEntry(searchDirs[i], taskPos[i]))
    /\ UNCHANGED <<workers, searchDirs, pattern, scanPc, dirIdx, chanClosed,
                   scanCtxDone, observed>>

\* case <-ctx.Done(): return filepath.SkipAll
SendCancelled(i) ==
    /\ i \in DOMAIN taskPc /\ taskPc[i] = "send" /\ ~Crashed
    /\ scanCtxDone
    /\ SkipAll(i)
    /\ observed' = observed \cup {i}
    /\ UNCHANGED <<workers, searchDirs, pattern, scanPc, dirIdx, results,
                   chanClosed, scanCtxDone, sentCount>>

\* The send case is chosen while results is closed: panic.
SendOnClosed(i) ==
    /\ i \in DOMAIN taskPc /\ taskPc[i] = "send" /\ ~Crashed
    /\ chanClosed
    /\ taskPc' = [taskPc EXCEPT ![i] = "panic"]
    /\ UNCHANGED <<workers, searchDirs, pattern, scanPc, dirIdx, wgCount,
                   semCount, taskPos, results, chanClosed, scanCtxDone,
                   sentCount, observed>>

\* The consumer receives one result.
Receive ==
    /\ results # << >> /\ ~Crashed
    /\ results' = Tail(results)
    /\ UNCHANGED <<workers, searchDirs, pattern, scanPc, dirIdx, wgCount,
                   semCount, taskPc, taskPos, chanClosed, scanCtxDone,
                   sentCount, observed>>

\* The caller cancels the context of the running call.
CancelScan ==
    /\ scanPc \in {"check", "acquire", "wait"} /\ ~Crashed
    /\ ~scanCtxDone
    /\ scanCtxDone' = TRUE
    /\ UNCHANGED <<workers, searchDirs, pattern, scanPc, dirIdx, wgCount,
                   semCount, taskPc, taskPos, results, chanClosed, sentCount,
                   observed>>

\* A sequence of SetWorkers calls on a scanner that is not scanning: at
\* most MaxCalls calls, each with an argument that may be negative or zero.
MaxCalls == 3

WorkerArgs == (0 - 1)..MaxWorkers

SetWorkersCall ==
    /\ scanPc = "idle"
    /\ Len(calls) < MaxCalls
    /\ \E n \in WorkerArgs :
          /\ workers' = SetWorkersTo(workers, n)
          /\ calls' = Append(calls, n)
    /\ UNCHANGED <<searchDirs, pattern, scanPc, dirIdx, wgCount, semCount,
                   taskPc, taskPos, results, chanClosed, scanCtxDone, sentCount,
                   observed>>

IdleScanner ==
    /\ workers = DefaultWorkers
    /\ searchDirs = << >>
    /\ pattern = "none"
    /\ scanPc = "off"
    /\ dirIdx = 1
    /\ wgCount = 0
    /\ semCount = 0
    /\ taskPc = << >>
    /\ taskPos = << >>
    /\ results = << >>
    /\ chanClosed = FALSE
    /\ scanCtxDone = FALSE
    /\ sentCount = << >>
    /\ observed = {}

TaskIds == 1..MaxRoots

-----------------------------------------------------------------------------
(* Directory sizes: GetDirSize and Scanner.calculateDirSize.               *)

MaxEntries == 4

\* make(chan struct{}, 10): the number of adders in flight, scaled down to
\* the number of entries so that the walk can block on it.
AdderSlots == 2

FileSizes == {1, 2}

\* What filepath.Walk hands to the callback for one entry: a directory
\* (its info.Size() is not 0), a regular file with its size, or an error.
Entry(kind, bytes) == [kind |-> kind, bytes |-> bytes]

EntryKinds ==
    {Entry("dir", 1), Entry("err", 0)} \cup {Entry("file", z) : z \in FileSizes}

\* Variant: the callback adds the size of every entry it gets an info for.
CountsDirs(e) == e.kind # "err"

\* if err != nil { return nil }; if !info.IsDir() { ... }
Counted(e) == e.kind = "file"

RECURSIVE GetDirSizeFrom(_, _)
\* utils.GetDirSize over a snapshot, from entry k on.
GetDirSizeFrom(snap, k) ==
    IF k > Len(snap) THEN 0
    ELSE (IF Counted(snap[k]) THEN snap[k].bytes ELSE 0) + GetDirSizeFrom(snap, k + 1)

GetDirSize(snap) == GetDirSizeFrom(snap, 1)

InitSize ==
    /\ snapshot \in SeqsUpTo(EntryKinds, MaxEntries)
    /\ walkPos = 1
    /\ size = 0
    /\ muHeld = FALSE
    /\ adderPc = [k \in 1..Len(snapshot) |-> "none"]
    /\ adderTmp = [k \in 1..Len(snapshot) |-> 0]
    /\ sizeSem = 0
    /\ sizeWg = 0
    /\ sizePc = "walk"
    /\ sizeReturned = 0
    /\ addCount = [k \in 1..Len(snapshot) |-> 0]
    /\ peak = 0

\* The callback for an entry that is an error or a directory: return nil.
WalkSkip ==
    /\ sizePc = "walk"
    /\ walkPos <= Len(snapshot)
    /\ ~Counted(snapshot[walkPos])
    /\ walkPos' = walkPos + 1
    /\ UNCHANGED <<snapshot, size, muHeld, adderPc, adderTmp, sizeSem, sizeWg,
                   sizePc, sizeReturned, addCount, peak>>

\* The callback for a regular file: wg.Add(1); semaphore <- struct{}{};
\* go func(fileSize int64) {...}(info.Size())
WalkFile ==
    /\ sizePc = "walk"
    /\ walkPos <= Len(snapshot)
    /\ Counted(snapshot[walkPos])
    /\ sizeSem < AdderSlots
    /\ sizeWg' = sizeWg + 1
    /\ sizeSem' = sizeSem + 1
    /\ adderPc' = [adderPc EXCEPT ![walkPos] = "lock"]
    /\ peak' = IF sizeSem + 1 > peak THEN sizeSem + 1 ELSE peak
    /\ walkPos' = walkPos + 1
    /\ UNCHANGED <<snapshot, size, muHeld, adderTmp, sizePc, sizeReturned,
                   addCount>>

\* filepath.Walk returns.
WalkEnd ==
    /\ sizePc = "walk"
    /\ walkPos > Len(snapshot)
    /\ sizePc' = "wait"
    /\ UNCHANGED <<snapshot, walkPos, size, muHeld, adderPc, adderTmp, sizeSem,
                   sizeWg, sizeReturned, addCount, peak>>

\* Variant: mu.Lock() never blocks.
NoMutex(held) == TRUE

\* mu.Lock() can proceed.
CanLock(held) == ~held

AdderLock(k) ==
    /\ k \in DOMAIN adderPc /\ adderPc[k] = "lock"
    /\ CanLock(muHeld)
    /\ muHeld' = TRUE
    /\ adderPc' = [adderPc EXCEPT ![k] = "read"]
    /\ UNCHANGED <<snapshot, walkPos, size, adderTmp, sizeSem, sizeWg, sizePc,
                   sizeReturned, addCount, peak>>

\* size += fileSize, the load
AdderRead(k) ==
    /\ k \in DOMAIN adderPc /\ adderPc[k] = "read"
    /\ adderTmp' = [adderTmp EXCEPT ![k] = size]
    /\ adderPc' = [adderPc EXCEPT ![k] = "write"]
    /\ UNCHANGED <<snapshot, walkPos, size, muHeld, sizeSem, sizeWg, sizePc,
                   sizeReturned, addCount, peak>>

\* size += fileSize, the store; mu.Unlock()
AdderWrite(k) ==
    /\ k \in DOMAIN adderPc /\ adderPc[k] = "write"
    /\ size' = adderTmp[k] + snapshot[k].bytes
    /\ addCount' = [addCount EXCEPT ![k] = @ + 1]
    /\ muHeld' = FALSE
    /\ adderPc' = [adderPc EXCEPT ![k] = "exit"]
    /\ UNCHANGED <<snapshot, walkPos, adderTmp, sizeSem, sizeWg, sizePc,
                   sizeReturned, peak>>

\* The deferred functions: <-semaphore, then wg.Done().
AdderExit(k) ==
    /\ k \in DOMAIN adderPc /\ adderPc[k] = "exit"
    /\ sizeSem' = sizeSem - 1
    /\ sizeWg' = sizeWg - 1
    /\ adderPc' = [adderPc EXCEPT ![k] = "done"]
    /\ UNCHANGED <<snapshot, walkPos, size, muHeld, adderTmp, sizePc,
                   sizeReturned, addCount, peak>>

\* wg.Wait() returns; return size, err
SizeReturn ==
    /\ sizePc = "wait"
    /\ sizeWg = 0
    /\ sizeReturned' = size
    /\ sizePc' = "returned"
    /\ UNCHANGED <<snapshot, walkPos, size, muHeld, adderPc, adderTmp, sizeSem,
                   sizeWg, addCount, peak>>

IdleSize ==
    /\ snapshot = << >>
    /\ walkPos = 1
    /\ size = 0
    /\ muHeld = FALSE
    /\ adderPc = << >>
    /\ adderTmp = << >>
    /\ sizeSem = 0
    /\ sizeWg = 0
    /\ sizePc = "off"
    /\ sizeReturned = 0
    /\ addCount = << >>
    /\ peak = 0

AdderIds == 1..MaxEntries

-----------------------------------------------------------------------------
(* The commands clean, report and smart: runClean, runReport, runSmart.    *)
(* What each does with the errors of its collectors and when it calls      *)
(* Clean.                                                                  *)

Commands == {"clean", "report", "smart"}

\* runSmart: the domain cleaners it adds for the tool families detected,
\* then the four system cleaners it always adds.
DomainCleaners == << "Frontend", "Backend", "Mobile", "DevOps", "Data/ML" >>

SmartSystemCleaners == << "Trash", "System Caches", "System Logs", "Temp Files" >>

\* The registries considered: at most MaxRunCleaners cleaners pass the
\* domain filter of clean and report, at most MaxRunCleaners tool families
\* are detected by smart.
MaxRunCleaners == 1

RunRegistries ==
    {filterCleanersByDomain(AllCleaners, D) :
        D \in {S \in SUBSET CleanerNames : Cardinality(S) <= MaxRunCleaners}}

SmartRegistries ==
    {SelectSeq(DomainCleaners, LAMBDA c : c \in D) \o SmartSystemCleaners :
        D \in {S \in SUBSET {DomainCleaners[k] : k \in 1..Len(DomainCleaners)} :
                  Cardinality(S) <= MaxRunCleaners}}

InitRun ==
    /\ command \in Commands
    /\ verbose \in BOOLEAN
    /\ runDry \in (IF command = "report" THEN {FALSE} ELSE BOOLEAN)
    /\ runInteractive \in (IF command = "clean" THEN BOOLEAN ELSE {FALSE})
    /\ levelFlag \in (IF command = "smart" THEN {"standard"} ELSE LevelFlags)
    /\ runLevel = (IF command = "smart" THEN Conservative ELSE Standard)
    /\ runCleaners \in (IF command = "smart" THEN SmartRegistries ELSE RunRegistries)
    /\ runIdx = 1
    /\ runPc = (IF command = "smart" THEN "scan" ELSE "parse")
    /\ runTargets = << >>
    /\ collectorErrors = {}
    /\ warnings = {}
    /\ runResults = << >>
    /\ runCleaned = {}
    /\ runCleanCalls = {}
    /\ runRemoved = {}
    /\ partials = {}
    /\ runReturn = "none"

\* level, err := config.ParseCleanLevel(cleanLevel); if err != nil { return err }
\* in runClean and runReport, before initAllCleaners.
RunParse ==
    /\ runPc = "parse"
    /\ LET parsed == ParseCleanLevel(levelFlag)
       IN IF parsed.err # "nil"
          THEN /\ runReturn' = parsed.err
               /\ runPc' = "done"
               /\ runLevel' = runLevel
          ELSE /\ runLevel' = parsed.level
               /\ runPc' = "scan"
               /\ runReturn' = runReturn
    /\ UNCHANGED <<command, verbose, runDry, runInteractive, runCleaners,
                   runIdx, runTargets, collectorErrors, warnings, runResults,
                   runCleaned, runCleanCalls, runRemoved, partials>>

\* Whether the command prints a warning for a Detect error: runClean does
\* under if verbose; runReport and runSmart test err != nil || !isDetected
\* and continue.
WarnsDetect(cmd, v) == cmd = "clean" /\ v

\* Whether the command prints a warning for a Scan error: runClean and
\* runReport do under if verbose; runSmart continues.
WarnsScan(cmd, v) == cmd \in {"clean", "report"} /\ v

\* Whether the command prints a warning for a Clean error: runClean does;
\* runSmart only tests err == nil.
WarnsClean(cmd) == cmd = "clean"

Warned(w, does, kind, name) == IF does THEN w \cup {<<kind, name>>} ELSE w

InRunScanLoop == runPc = "scan" /\ runIdx <= Len(runCleaners)

\* isDetected, err := c.Detect(ctx) with err != nil
RunDetectError ==
    /\ InRunScanLoop
    /\ "error" \in DetectOutcomes(runCleaners[runIdx])
    /\ collectorErrors' = collectorErrors \cup {<<"detect", runCleaners[runIdx]>>}
    /\ warnings' = Warned(warnings, WarnsDetect(command, verbose), "detect",
                          runCleaners[runIdx])
    /\ runIdx' = runIdx + 1
    /\ UNCHANGED <<command, verbose, runDry, runInteractive, runLevel,
                   runCleaners, runPc, runTargets, runResults, runCleaned,
                   runCleanCalls, runRemoved, partials, runReturn>>

\* Detect returned (false, nil): continue.
RunDetectFalse ==
    /\ InRunScanLoop
    /\ "false" \in DetectOutcomes(runCleaners[runIdx])
    /\ runIdx' = runIdx + 1
    /\ UNCHANGED <<command, verbose, runDry, runInteractive, runLevel,
                   runCleaners, runPc, runTargets, collectorErrors, warnings,
                   runResults, runCleaned, runCleanCalls, runRemoved, partials,
                   runReturn>>

\* targets, err := c.Scan(ctx, cfg) with err != nil
RunScanError ==
    /\ InRunScanLoop
    /\ "true" \in DetectOutcomes(runCleaners[runIdx])
    /\ ScanMayFail(runCleaners[runIdx])
    /\ collectorErrors' = collectorErrors \cup {<<"scan", runCleaners[runIdx]>>}
    /\ warnings' = Warned(warnings, WarnsScan(command, verbose), "scan",
                          runCleaners[runIdx])
    /\ runIdx' = runIdx + 1
    /\ UNCHANGED <<command, verbose, runDry, runInteractive, runLevel,
                   runCleaners, runPc, runTargets, runResults, runCleaned,
                   runCleanCalls, runRemoved, partials, runReturn>>

\* Scan returned targets: if len(targets) > 0 they go into the map.
RunScanOk ==
    /\ InRunScanLoop
    /\ "true" \in DetectOutcomes(runCleaners[runIdx])
    /\ \E present \in Presences(runCleaners[runIdx]) :
          LET targets == Scan(runCleaners[runIdx], runLevel, present)
          IN /\ TotalTargets(runTargets) + Len(targets) <= MaxTargets
             /\ runTargets' = StoreTargets(runTargets, runCleaners[runIdx], targets)
    /\ runIdx' = runIdx + 1
    /\ UNCHANGED <<command, verbose, runDry, runInteractive, runLevel,
                   runCleaners, runPc, collectorErrors, warnings, runResults,
                   runCleaned, runCleanCalls, runRemoved, partials, runReturn>>

AfterRunScanLoop == runPc = "scan" /\ runIdx > Len(runCleaners)

\* runReport after its loop: the estimation is printed; return nil.
ReportReturn ==
    /\ AfterRunScanLoop
    /\ command = "report"
    /\ runPc' = "done"
    /\ runReturn' = "nil"
    /\ UNCHANGED <<command, verbose, runDry, runInteractive, runLevel,
                   runCleaners, runIdx, runTargets, collectorErrors, warnings,
                   runResults, runCleaned, runCleanCalls, runRemoved, partials>>

\* Variant: runSmart goes on to its clean loop in a dry run.
SmartNeverStops(dry) == FALSE

\* runSmart: if dryRun { rep.PrintInfo("DRY RUN ..."); return nil }
SmartStops(dry) == dry

\* The clean loop is entered; with an empty map it ends at once, the
\* results are printed and the command returns nil.
EnterCleanLoop ==
    IF DOMAIN runTargets = {}
    THEN runPc' = "done" /\ runReturn' = "nil"
    ELSE runPc' = "clean" /\ runReturn' = runReturn

SmartDryReturn ==
    /\ AfterRunScanLoop
    /\ command = "smart"
    /\ SmartStops(runDry)
    /\ runPc' = "done"
    /\ runReturn' = "nil"
    /\ UNCHANGED <<command, verbose, runDry, runInteractive, runLevel,
                   runCleaners, runIdx, runTargets, collectorErrors, warnings,
                   runResults, runCleaned, runCleanCalls, runRemoved, partials>>

SmartClean ==
    /\ AfterRunScanLoop
    /\ command = "smart"
    /\ ~SmartStops(runDry)
    /\ EnterCleanLoop
    /\ UNCHANGED <<command, verbose, runDry, runInteractive, runLevel,
                   runCleaners, runIdx, runTargets, collectorErrors, warnings,
                   runResults, runCleaned, runCleanCalls, runRemoved, partials>>

\* runClean: if totalTargets == 0 { rep.PrintInfo("Nothing to clean!"); return nil }
RunNothingToClean ==
    /\ AfterRunScanLoop
    /\ command = "clean"
    /\ TotalTargets(runTargets) = 0
    /\ runPc' = "done"
    /\ runReturn' = "nil"
    /\ UNCHANGED <<command, verbose, runDry, runInteractive, runLevel,
                   runCleaners, runIdx, runTargets, collectorErrors, warnings,
                   runResults, runCleaned, runCleanCalls, runRemoved, partials>>

\* runClean: the confirmation, where one is asked, then the clean loop or
\* "Cancelled" and return nil.
RunConfirm ==
    /\ AfterRunScanLoop
    /\ command = "clean"
    /\ TotalTargets(runTargets) > 0
    /\ \E r \in Responses :
          IF NeedsConfirmation(runInteractive, runDry) /\ ~Confirms(r)
          THEN runPc' = "done" /\ runReturn' = "nil"
          ELSE EnterCleanLoop
    /\ UNCHANGED <<command, verbose, runDry, runInteractive, runLevel,
                   runCleaners, runIdx, runTargets, collectorErrors, warnings,
                   runResults, runCleaned, runCleanCalls, runRemoved, partials>>

\* What Clean of a cleaner that looks at its context returns when the
\* context is done after target k: the results so far and ctx.Err().
CancelledOutcomes(c, targets, dry) ==
    IF ChecksContext(c)
    THEN {CleanLoop(c, SubSeq(targets, 1, k), 1, dry, failset) :
             k \in 1..Len(targets),
             failset \in (IF dry THEN {{}} ELSE SUBSET (1..Len(targets)))}
    ELSE {}

Range(f) == {f[j] : j \in DOMAIN f}

\* results, err := c.Clean(ctx, targets, dryRun) with err != nil: runClean
\* prints a warning and continues, runSmart appends only if err == nil.
\* Either way the results returned with the error are not appended.
RunCleanError ==
    /\ runPc = "clean"
    /\ \E domain \in (DOMAIN runTargets) \ runCleaned :
          LET c == FindCleaner(runCleaners, domain)
          IN /\ c # "nil"
             /\ \E r \in CancelledOutcomes(c, runTargets[domain], runDry) :
                   /\ partials' = partials \cup Range(r.results)
                   /\ runRemoved' = runRemoved \cup r.removed \cup r.commands
             /\ runCleanCalls' = runCleanCalls \cup {c}
             /\ collectorErrors' = collectorErrors \cup {<<"clean", c>>}
             /\ warnings' = Warned(warnings, WarnsClean(command), "clean", c)
             /\ runCleaned' = runCleaned \cup {domain}
             /\ IF runCleaned \cup {domain} = DOMAIN runTargets
                THEN runPc' = "done" /\ runReturn' = "nil"
                ELSE runPc' = "clean" /\ runReturn' = runReturn
    /\ UNCHANGED <<command, verbose, runDry, runInteractive, runLevel,
                   runCleaners, runIdx, runTargets, runResults>>

\* results, err := c.Clean(ctx, targets, dryRun) with err == nil:
\* allResults = append(allResults, results...). After the last bucket the
\* results are printed and the command returns nil.
RunCleanOk ==
    /\ runPc = "clean"
    /\ \E domain \in (DOMAIN runTargets) \ runCleaned :
          LET c == FindCleaner(runCleaners, domain)
          IN /\ IF c = "nil"
                THEN UNCHANGED <<runResults, runRemoved, runCleanCalls>>
                ELSE /\ \E r \in CleanOutcomes(c, runTargets[domain], runDry) :
                           /\ runResults' = runResults \o r.results
                           /\ runRemoved' = runRemoved \cup r.removed \cup r.commands
                     /\ runCleanCalls' = runCleanCalls \cup {c}
             /\ runCleaned' = runCleaned \cup {domain}
             /\ IF runCleaned \cup {domain} = DOMAIN runTargets
                THEN runPc' = "done" /\ runReturn' = "nil"
                ELSE runPc' = "clean" /\ runReturn' = runReturn
    /\ UNCHANGED <<command, verbose, runDry, runInteractive, runLevel,
                   runCleaners, runIdx, runTargets, collectorErrors, warnings,
                   partials>>

-----------------------------------------------------------------------------
(* One call of CleanLevel.AllowsSafety. CleanLevel and SafetyLevel are int  *)
(* types: a value outside the declared constants can reach the method.      *)

MaxLevelValue == 5
MaxSafetyValue == 3

LevelValues == (0 - MaxLevelValue)..MaxLevelValue
SafetyValues == (0 - 1)..MaxSafetyValue

InitGate ==
    /\ gateLevel \in LevelValues
    /\ gateSafety \in SafetyValues
    /\ gateAsked = FALSE
    /\ gateAnswer = FALSE

\* cl.AllowsSafety(safety)
AllowsSafetyCall ==
    /\ ~gateAsked
    /\ gateAsked' = TRUE
    /\ gateAnswer' = AllowsSafety(gateLevel, gateSafety)
    /\ UNCHANGED <<gateLevel, gateSafety>>

IdleGate ==
    /\ gateLevel = Conservative
    /\ gateSafety = Safe
    /\ gateAsked = FALSE
    /\ gateAnswer = FALSE

IdleCalls == calls = << >>

IdleRun ==
    /\ command = "none"
    /\ verbose = FALSE
    /\ runDry = FALSE
    /\ runInteractive = FALSE
    /\ runLevel = Conservative
    /\ runCleaners = << >>
    /\ runIdx = 1
    /\ runPc = "idle"
    /\ runTargets = << >>
    /\ collectorErrors = {}
    /\ warnings = {}
    /\ runResults = << >>
    /\ runCleaned = {}
    /\ runCleanCalls = {}
    /\ runRemoved = {}
    /\ partials = {}
    /\ runReturn = "none"
    /\ levelFlag = "standard"

IdleExtra == IdleGate /\ IdleCalls /\ IdleRun

-----------------------------------------------------------------------------
(* The root set of a scanner: NewScanner, NewScannerWithDirs, AddSearchDir. *)

MaxRootSet == 3

\* Paths a caller may name that are not directories: two that do not
\* exist and a regular file.
Missing == <<"Missing">>

NotDirs == {Missing, <<"Projects", "gone">>, <<"Projects", "app.log">>}

DirCandidates == RootCandidates \cup NotDirs

\* os.Stat(dir): the error, or whether dir is a directory.
Stat(dir) ==
    IF dir \notin Entries THEN [err |-> "ErrNotExist", isDir |-> FALSE]
    ELSE [err |-> "nil", isDir |-> IsDir(dir)]

\* func (s *Scanner) AddSearchDir(dir string) error: the root set and the
\* error after the call.
AddSearchDirTo(dirs, dir) ==
    IF Stat(dir).err # "nil" THEN [dirs |-> dirs, err |-> Stat(dir).err]
    ELSE IF ~Stat(dir).isDir THEN [dirs |-> dirs, err |-> "ErrInvalid"]
    ELSE [dirs |-> Append(dirs, dir), err |-> "nil"]

InitRoots ==
    /\ workers = DefaultWorkers
    /\ searchDirs \in {NewScanner} \cup
                      {NewScannerWithDirs(d) : d \in SeqsUpTo(DirCandidates, MaxRootSet)}
    /\ pattern = "none"
    /\ scanPc = "idle"
    /\ dirIdx = 1
    /\ wgCount = 0
    /\ semCount = 0
    /\ taskPc = << >>
    /\ taskPos = << >>
    /\ results = << >>
    /\ chanClosed = FALSE
    /\ scanCtxDone = FALSE
    /\ sentCount = [e \in Entries |-> 0]
    /\ observed = {}
    /\ addErr = "none"

\* s.AddSearchDir(dir) with any path.
AddSearchDirCall ==
    /\ scanPc = "idle"
    /\ Len(searchDirs) < MaxRootSet
    /\ \E dir \in DirCandidates :
          /\ searchDirs' = AddSearchDirTo(searchDirs, dir).dirs
          /\ addErr' = AddSearchDirTo(searchDirs, dir).err
    /\ UNCHANGED <<workers, pattern, scanPc, dirIdx, wgCount, semCount,
                   taskPc, taskPos, results, chanClosed, scanCtxDone, sentCount,
                   observed>>

IdleRoots == addErr = "none"

-----------------------------------------------------------------------------
(* One call of utils.GetDirSize.                                           *)

\* The callback invocations of filepath.Walk(path, fn): the first is for
\* path itself, and only a directory has entries beneath it.
Walks ==
    {w \in SeqsUpTo(EntryKinds, MaxEntries) :
        Len(w) >= 1 /\ (w[1].kind # "dir" => Len(w) = 1)}

\* What the callback returns to filepath.Walk: nil on every path.
WalkFn(e) == "nil"

\* What filepath.Walk returns: the first error its callback returned.
WalkReturn(w) ==
    IF \E k \in 1..Len(w) : WalkFn(w[k]) # "nil"
    THEN WalkFn(w[CHOOSE k \in 1..Len(w) :
                    /\ WalkFn(w[k]) # "nil"
                    /\ \A j \in 1..(k - 1) : WalkFn(w[j]) = "nil"])
    ELSE "nil"

InitDirSize ==
    /\ gdWalk \in Walks
    /\ gdPc = "idle"
    /\ gdSize = 0
    /\ gdErr = "nil"

\* size, err := utils.GetDirSize(path)
GetDirSizeCall ==
    /\ gdPc = "idle"
    /\ gdPc' = "returned"
    /\ gdSize' = GetDirSize(gdWalk)
    /\ gdErr' = WalkReturn(gdWalk)
    /\ UNCHANGED gdWalk

IdleDirSize ==
    /\ gdWalk = << >>
    /\ gdPc = "off"
    /\ gdSize = 0
    /\ gdErr = "nil"

-----------------------------------------------------------------------------
(* The TUI model: NewModel and Update.                                     *)

MaxItems == 2
MaxItemTargets == 2

\* cleanedMsg{size: 1024}
CleanedBytes == 1024

\* The keys of the tea.KeyMsg values sent to Update, by msg.String().
Keys == {"q", "ctrl+c", " ", "enter", "a", "n", "N", "y", "Y", "up", "down", "x"}

\* targetsByDomain as NewModel ranges over it: the number of targets of
\* each bucket, empty buckets included.
BucketLists == SeqsUpTo(0..MaxItemTargets, MaxItems)

\* NewModel: one item per bucket that is not empty, selected by default.
NewModel(buckets) ==
    LET kept == SelectSeq(buckets, LAMBDA n : n > 0)
    IN [k \in 1..Len(kept) |-> [targets |-> kept[k], selected |-> TRUE]]

InitTui ==
    /\ state = "StateSelect"
    /\ items \in {NewModel(b) : b \in BucketLists}
    /\ cursor = 0
    /\ cleaning = FALSE
    /\ cleanIndex = 0
    /\ totalItems = 0
    /\ cleanedSize = 0
    /\ quitting = FALSE
    /\ inFlight = 0
    /\ lastMsg = "none"

\* Variant: Enter finds a selected item whatever the selection.
AlwaysSelected(its) == TRUE

\* for _, item := range m.items { if item.selected { hasSelected = true } }
HasSelected(its) == \E k \in 1..Len(its) : its[k].selected

RECURSIVE SelectedTargetsFrom(_, _)
\* for _, item := range m.items { if item.selected { m.totalItems += len(item.targets) } }
SelectedTargetsFrom(its, k) ==
    IF k > Len(its) THEN 0
    ELSE (IF its[k].selected THEN its[k].targets ELSE 0) + SelectedTargetsFrom(its, k + 1)

SelectedTargets(its) == SelectedTargetsFrom(its, 1)

\* Variant: q and ctrl+c quit in every state.
QuitsAnywhere(st, k) ==
    \/ k \in {"q", "ctrl+c"}
    \/ st = "StateDone" /\ k = "enter"

\* The key messages on which Update sets m.quitting and returns tea.Quit.
Quits(st, k) ==
    \/ st = "StateSelect" /\ k \in {"q", "ctrl+c"}
    \/ st = "StateDone" /\ k \in {"q", "ctrl+c", "enter"}

\* case StateSelect: the items after key k with the list cursor at i.
SelectKey(its, i, k) ==
    CASE k = " " ->
            IF i >= 0 /\ i < Len(its)
            THEN [its EXCEPT ![i + 1].selected = ~its[i + 1].selected]
            ELSE its
      [] k = "a" -> [j \in 1..Len(its) |-> [its[j] EXCEPT !.selected = TRUE]]
      [] k = "n" -> [j \in 1..Len(its) |-> [its[j] EXCEPT !.selected = FALSE]]
      [] OTHER -> its

\* m.list, cmd = m.list.Update(msg): the indices the cursor may be at after
\* key k; the list moves it on the navigation keys, within its items.
ListUpdate(i, k, n) ==
    IF k \in {"up", "down"} /\ n > 0 THEN 0..(n - 1) ELSE {i}

\* The state after key k when Update has not returned early.
KeyState(st, its, k) ==
    CASE st = "StateSelect" /\ k = "enter" /\ HasSelected(its) -> "StateConfirm"
      [] st = "StateConfirm" /\ k \in {"n", "N", "q", "ctrl+c"} -> "StateSelect"
      [] OTHER -> st

\* Update(tea.KeyMsg) with msg.String() = k.
KeyMsg(k) ==
    /\ ~quitting
    /\ lastMsg' = k
    /\ IF Quits(state, k)
       THEN /\ quitting' = TRUE
            /\ UNCHANGED <<state, items, cursor, cleaning, cleanIndex,
                           totalItems, cleanedSize, inFlight>>
       ELSE IF state = "StateConfirm" /\ k \in {"y", "Y"}
       THEN /\ state' = "StateCleaning"
            /\ cleaning' = TRUE
            /\ totalItems' = totalItems + SelectedTargets(items)
            /\ inFlight' = inFlight + 1
            /\ UNCHANGED <<items, cursor, cleanIndex, cleanedSize, quitting>>
       ELSE /\ state' = KeyState(state, items, k)
            /\ items' = (IF state = "StateSelect" THEN SelectKey(items, cursor, k)
                         ELSE items)
            /\ \E c \in ListUpdate(cursor, k, Len(items)) : cursor' = c
            /\ UNCHANGED <<cleaning, cleanIndex, totalItems, cleanedSize,
                           quitting, inFlight>>

\* Variant: the run is over only when the index has passed the total.
DonePast(index, total) == index > total

\* if m.cleanIndex >= m.totalItems
CleaningDone(index, total) == index >= total

\* Update(cleanedMsg{size}): the message of a command cleanNext returned.
CleanedMsg ==
    /\ ~quitting
    /\ inFlight > 0
    /\ lastMsg' = "cleanedMsg"
    /\ cleanedSize' = cleanedSize + CleanedBytes
    /\ cleanIndex' = cleanIndex + 1
    /\ IF CleaningDone(cleanIndex + 1, totalItems)
       THEN /\ state' = "StateDone"
            /\ cleaning' = FALSE
            /\ inFlight' = inFlight - 1
       ELSE /\ inFlight' = inFlight
            /\ UNCHANGED <<state, cleaning>>
    /\ UNCHANGED <<items, cursor, totalItems, quitting>>

IdleTui ==
    /\ state = "off"
    /\ items = << >>
    /\ cursor = 0
    /\ cleaning = FALSE
    /\ cleanIndex = 0
    /\ totalItems = 0
    /\ cleanedSize = 0
    /\ quitting = FALSE
    /\ inFlight = 0
    /\ lastMsg = "none"

IdleMore == IdleRoots /\ IdleDirSize /\ IdleTui

-----------------------------------------------------------------------------
(* Specifications                                                          *)

IdleOrch ==
    /\ cleanLevel = Conservative
    /\ dryRun = FALSE
    /\ interactive = FALSE
    /\ cleaners = << >>
    /\ pc = "idle"
    /\ idx = 1
    /\ detected = {}
    /\ targetsByDomain = << >>
    /\ allResults = << >>
    /\ cleanedDomains = {}
    /\ scanCalls = {}
    /\ cleanCalls = {}
    /\ attempted = {}
    /\ removed = {}
    /\ commands = {}
    /\ confirmation = "none"
    /\ undetected = {}
    /\ scanFailed = {}
    /\ failures = {}
    /\ resultOwner = << >>
    /\ scanFound = {}

IdleCall ==
    /\ callCleaner = "nil"
    /\ callTargets = << >>
    /\ callDryRun = FALSE
    /\ callPos = 1
    /\ callResults = << >>
    /\ callPc = "idle"
    /\ callErr = "nil"
    /\ ctxDone = FALSE
    /\ callRemoved = {}
    /\ callCommands = {}

\* runClean from its start to its return.
Init == InitOrch /\ IdleCall /\ IdleScanner /\ IdleSize /\ IdleExtra /\ IdleMore

Next ==
    \/ DetectError /\ UNCHANGED <<cvars, svars, zvars, xvars, yvars>>
    \/ DetectFalse /\ UNCHANGED <<cvars, svars, zvars, xvars, yvars>>
    \/ ScanError /\ UNCHANGED <<cvars, svars, zvars, xvars, yvars>>
    \/ ScanOk /\ UNCHANGED <<cvars, svars, zvars, xvars, yvars>>
    \/ NothingToClean /\ UNCHANGED <<cvars, svars, zvars, xvars, yvars>>
    \/ AskConfirmation /\ UNCHANGED <<cvars, svars, zvars, xvars, yvars>>
    \/ NoConfirmationNeeded /\ UNCHANGED <<cvars, svars, zvars, xvars, yvars>>
    \/ ConfirmYes /\ UNCHANGED <<cvars, svars, zvars, xvars, yvars>>
    \/ ConfirmNo /\ UNCHANGED <<cvars, svars, zvars, xvars, yvars>>
    \/ CleanBucket /\ UNCHANGED <<cvars, svars, zvars, xvars, yvars>>

Spec == Init /\ [][Next]_vars

\* One Clean call of any cleaner on any list of targets.
InitClean == IdleOrch /\ InitCall /\ IdleScanner /\ IdleSize /\ IdleExtra /\ IdleMore

NextClean ==
    \/ CleanIteration /\ UNCHANGED <<ovars, svars, zvars, xvars, yvars>>
    \/ CleanReturn /\ UNCHANGED <<ovars, svars, zvars, xvars, yvars>>
    \/ Cancel /\ UNCHANGED <<ovars, svars, zvars, xvars, yvars>>

SpecClean == InitClean /\ [][NextClean]_vars

\* A scanner from its construction through one FindByPattern call.
InitScan == IdleOrch /\ IdleCall /\ InitScanner /\ IdleSize /\ IdleExtra /\ IdleMore

NextScan ==
    \/ SetWorkers /\ UNCHANGED <<ovars, cvars, zvars, xvars, yvars>>
    \/ AddSearchDir /\ UNCHANGED <<ovars, cvars, zvars, xvars, yvars>>
    \/ FindByPattern /\ UNCHANGED <<ovars, cvars, zvars, xvars, yvars>>
    \/ LoopEnd /\ UNCHANGED <<ovars, cvars, zvars, xvars, yvars>>
    \/ LoopCancelled /\ UNCHANGED <<ovars, cvars, zvars, xvars, yvars>>
    \/ LoopAdd /\ UNCHANGED <<ovars, cvars, zvars, xvars, yvars>>
    \/ Acquire /\ UNCHANGED <<ovars, cvars, zvars, xvars, yvars>>
    \/ WaitDone /\ UNCHANGED <<ovars, cvars, zvars, xvars, yvars>>
    \/ \E i \in TaskIds : Visit(i) /\ UNCHANGED <<ovars, cvars, zvars, xvars, yvars>>
    \/ \E i \in TaskIds : Send(i) /\ UNCHANGED <<ovars, cvars, zvars, xvars, yvars>>
    \/ \E i \in TaskIds : SendCancelled(i) /\ UNCHANGED <<ovars, cvars, zvars, xvars, yvars>>
    \/ \E i \in TaskIds : SendOnClosed(i) /\ UNCHANGED <<ovars, cvars, zvars, xvars, yvars>>
    \/ Receive /\ UNCHANGED <<ovars, cvars, zvars, xvars, yvars>>
    \/ CancelScan /\ UNCHANGED <<ovars, cvars, zvars, xvars, yvars>>

SpecScan == InitScan /\ [][NextScan]_vars

\* A step of FindByPattern's goroutine or of one of the walking tasks.
GoroutineStep ==
    \/ LoopEnd
    \/ LoopCancelled
    \/ LoopAdd
    \/ Acquire
    \/ WaitDone
    \/ \E i \in TaskIds : Visit(i) \/ Send(i) \/ SendCancelled(i) \/ SendOnClosed(i)

\* The same under the Go scheduler: a goroutine that can run does run. The
\* consumer and the caller who cancels are under no obligation.
ScanFairness == WF_vars(GoroutineStep /\ UNCHANGED <<ovars, cvars, zvars, xvars, yvars>>)

SpecScanFair == InitScan /\ [][NextScan]_vars /\ ScanFairness

\* The same with a consumer that keeps receiving: for result := range ch.
ConsumerFairness == WF_vars(Receive /\ UNCHANGED <<ovars, cvars, zvars, xvars, yvars>>)

SpecScanLive == InitScan /\ [][NextScan]_vars /\ ScanFairness /\ ConsumerFairness

\* One calculateDirSize call on any snapshot.
InitSizing == IdleOrch /\ IdleCall /\ IdleScanner /\ InitSize /\ IdleExtra /\ IdleMore

NextSize ==
    \/ WalkSkip /\ UNCHANGED <<ovars, cvars, svars, xvars, yvars>>
    \/ WalkFile /\ UNCHANGED <<ovars, cvars, svars, xvars, yvars>>
    \/ WalkEnd /\ UNCHANGED <<ovars, cvars, svars, xvars, yvars>>
    \/ \E k \in AdderIds : AdderLock(k) /\ UNCHANGED <<ovars, cvars, svars, xvars, yvars>>
    \/ \E k \in AdderIds : AdderRead(k) /\ UNCHANGED <<ovars, cvars, svars, xvars, yvars>>
    \/ \E k \in AdderIds : AdderWrite(k) /\ UNCHANGED <<ovars, cvars, svars, xvars, yvars>>
    \/ \E k \in AdderIds : AdderExit(k) /\ UNCHANGED <<ovars, cvars, svars, xvars, yvars>>
    \/ SizeReturn /\ UNCHANGED <<ovars, cvars, svars, xvars, yvars>>

SpecSize == InitSizing /\ [][NextSize]_vars

\* One AllowsSafety call on any pair of int values.
InitGating ==
    IdleOrch /\ IdleCall /\ IdleScanner /\ IdleSize /\ InitGate /\ IdleCalls /\ IdleRun /\ IdleMore

NextGate ==
    \/ AllowsSafetyCall /\ UNCHANGED <<ovars, cvars, svars, zvars, wvars, rvars, yvars>>

SpecGate == InitGating /\ [][NextGate]_vars

\* One run of the command clean, report or smart.
InitCommand ==
    IdleOrch /\ IdleCall /\ IdleScanner /\ IdleSize /\ IdleGate /\ IdleCalls /\ InitRun /\ IdleMore

NextCommand ==
    \/ RunParse /\ UNCHANGED <<ovars, cvars, svars, zvars, gvars, wvars, yvars>>
    \/ RunDetectError /\ UNCHANGED <<ovars, cvars, svars, zvars, gvars, wvars, yvars>>
    \/ RunDetectFalse /\ UNCHANGED <<ovars, cvars, svars, zvars, gvars, wvars, yvars>>
    \/ RunScanError /\ UNCHANGED <<ovars, cvars, svars, zvars, gvars, wvars, yvars>>
    \/ RunScanOk /\ UNCHANGED <<ovars, cvars, svars, zvars, gvars, wvars, yvars>>
    \/ ReportReturn /\ UNCHANGED <<ovars, cvars, svars, zvars, gvars, wvars, yvars>>
    \/ SmartDryReturn /\ UNCHANGED <<ovars, cvars, svars, zvars, gvars, wvars, yvars>>
    \/ SmartClean /\ UNCHANGED <<ovars, cvars, svars, zvars, gvars, wvars, yvars>>
    \/ RunNothingToClean /\ UNCHANGED <<ovars, cvars, svars, zvars, gvars, wvars, yvars>>
    \/ RunConfirm /\ UNCHANGED <<ovars, cvars, svars, zvars, gvars, wvars, yvars>>
    \/ RunCleanError /\ UNCHANGED <<ovars, cvars, svars, zvars, gvars, wvars, yvars>>
    \/ RunCleanOk /\ UNCHANGED <<ovars, cvars, svars, zvars, gvars, wvars, yvars>>

SpecCommand == InitCommand /\ [][NextCommand]_vars

\* A new scanner and the SetWorkers calls made on it.
InitWorkers ==
    IdleOrch /\ IdleCall /\ InitScanner /\ IdleSize /\ IdleGate /\ IdleCalls /\ IdleRun /\ IdleMore

NextWorkers ==
    \/ SetWorkersCall /\ UNCHANGED <<ovars, cvars, zvars, gvars, rvars, yvars>>

SpecWorkers == InitWorkers /\ [][NextWorkers]_vars

\* A scanner as constructed and the AddSearchDir calls made on it.
InitRootSet ==
    /\ IdleOrch /\ IdleCall /\ InitRoots /\ IdleSize /\ IdleExtra
    /\ IdleDirSize /\ IdleTui

NextRoots ==
    \/ AddSearchDirCall /\ UNCHANGED <<ovars, cvars, zvars, xvars, pvars, dvars, tvars>>

SpecRoots == InitRootSet /\ [][NextRoots]_vars

\* One GetDirSize call on any walk.
InitDirSizing ==
    /\ IdleOrch /\ IdleCall /\ IdleScanner /\ IdleSize /\ IdleExtra
    /\ IdleRoots /\ InitDirSize /\ IdleTui

NextDirSize ==
    \/ GetDirSizeCall /\ UNCHANGED <<ovars, cvars, svars, zvars, xvars, pvars, avars, tvars>>

SpecDirSize == InitDirSizing /\ [][NextDirSize]_vars

\* The TUI model and the messages Update receives.
InitModel ==
    /\ IdleOrch /\ IdleCall /\ IdleScanner /\ IdleSize /\ IdleExtra
    /\ IdleRoots /\ IdleDirSize /\ InitTui

NextTui ==
    \/ \E k \in Keys : KeyMsg(k) /\ UNCHANGED <<ovars, cvars, svars, zvars, xvars, pvars, avars, dvars>>
    \/ CleanedMsg /\ UNCHANGED <<ovars, cvars, svars, zvars, xvars, pvars, avars, dvars>>

SpecTui == InitModel /\ [][NextTui]_vars

\* The runtime delivers the message of every command Update returned.
TuiFairness ==
    WF_vars(CleanedMsg /\ UNCHANGED <<ovars, cvars, svars, zvars, xvars, pvars, avars, dvars>>)

SpecTuiLive == InitModel /\ [][NextTui]_vars /\ TuiFairness

-----------------------------------------------------------------------------
(* Properties of runClean                                                  *)

AllBucketTargets ==
    UNION {{<<d, k>> : k \in 1..Len(targetsByDomain[d])} : d \in DOMAIN targetsByDomain}

\* The position in allResults of the result for target k of bucket d (the
\* results of one Clean call are appended together).
ResultIndex(d, k) ==
    (CHOOSE j \in 1..Len(resultOwner) :
        resultOwner[j] = d /\ \A h \in 1..(j - 1) : resultOwner[h] # d) + k - 1

\* C1: every target a Scan puts in a bucket is allowed at the clean level
\* of the run (Allows(L, s)), so that at Conservative no Moderate or
\* Dangerous target is bucketed or cleaned.
C1_BucketsAllowed ==
    \A d \in DOMAIN targetsByDomain :
        \A k \in 1..Len(targetsByDomain[d]) :
            AllowsSafety(cleanLevel, targetsByDomain[d][k].safety)

\* C3: in an interactive run that is not a dry run no Clean is called
\* before the operator has confirmed, and after a declined prompt no Clean
\* is ever called and no result exists.
C3_ConfirmBeforeClean ==
    /\ (interactive /\ ~dryRun /\ cleanCalls # {}) => confirmation = "yes"
    /\ confirmation = "no" =>
          (cleanCalls = {} /\ allResults = << >> /\ removed = {} /\ commands = {})

C3_Witness ==
    /\ interactive /\ ~dryRun
    /\ confirmation = "yes"
    /\ cleanCalls # {}
    /\ removed # {}

\* C4: a collector whose Detect returned false or an error is never
\* scanned, never a key of the target map, never cleaned, and owns no
\* CleanResult.
C4_UndetectedUntouched ==
    \A c \in undetected :
        /\ c \notin scanCalls
        /\ c \notin DOMAIN targetsByDomain
        /\ c \notin cleanCalls
        /\ \A j \in 1..Len(resultOwner) : resultOwner[j] # c

C4_Witness ==
    /\ pc = "done"
    /\ undetected # {}
    /\ cleanCalls # {}
    /\ Len(allResults) > 0

\* C5: a Scan error does not stop the run: once the detect/scan loop is
\* over every collector of the registry was either undetected or scanned,
\* every non-empty list a Scan returned is stored, and the collector whose
\* Scan failed has no bucket and is never cleaned.
C5_ScanErrorIsolated ==
    /\ pc # "scan" =>
          \A i \in 1..Len(cleaners) : cleaners[i] \in undetected \cup scanCalls
    /\ scanFound \subseteq DOMAIN targetsByDomain
    /\ \A c \in scanFailed :
          /\ c \notin DOMAIN targetsByDomain
          /\ c \notin cleanCalls
          /\ \A j \in 1..Len(resultOwner) : resultOwner[j] # c

C5_Witness ==
    /\ pc = "done"
    /\ \E i, j \in 1..Len(cleaners) :
          /\ i < j
          /\ cleaners[i] \in scanFailed
          /\ cleaners[j] \in scanFound
          /\ cleaners[j] \in cleanCalls

\* C6: in a real run a failed removal yields a result with success =
\* FALSE and an error, and the run goes on: when it ends every target of
\* every bucket has been attempted and has its result.
C6_FailureDoesNotStop ==
    /\ \A f \in failures :
          /\ ResultIndex(f[1], f[2]) \in 1..Len(allResults)
          /\ ~allResults[ResultIndex(f[1], f[2])].success
          /\ allResults[ResultIndex(f[1], f[2])].error # "nil"
          /\ allResults[ResultIndex(f[1], f[2])].target = targetsByDomain[f[1]][f[2]]
    /\ (~dryRun /\ pc = "done" /\ confirmation # "no") =>
          /\ attempted = AllBucketTargets
          /\ Len(allResults) = TotalTargets(targetsByDomain)

C6_Witness ==
    /\ ~dryRun /\ pc = "done"
    /\ \E f \in failures : \E g \in attempted \ failures :
          \/ (g[1] = f[1] /\ g[2] > f[2])
          \/ (g[1] # f[1] /\ ResultIndex(g[1], g[2]) > ResultIndex(f[1], f[2]))

-----------------------------------------------------------------------------
(* Properties of one Clean call                                            *)

\* C2 as stated: a dry-run Clean of any cleaner on any list of targets
\* removes nothing, runs no destructive command, and every result has
\* success = TRUE and bytesFreed equal to the target's sizeBytes.
C2_DryRunReportsSize ==
    callDryRun =>
        /\ callRemoved = {}
        /\ callCommands = {}
        /\ \A j \in 1..Len(callResults) :
              /\ callResults[j].success
              /\ callResults[j].bytesFreed = callResults[j].target.sizeBytes

\* C2 amended: a dry-run Clean of any cleaner on any list of targets
\* removes nothing, runs no destructive command, and every result has
\* success = TRUE and no error; bytesFreed equals the target's sizeBytes
\* for every cleaner but the DNS cache cleaner, which always reports 0.
C2_DryRunAmended ==
    callDryRun =>
        /\ callRemoved = {}
        /\ callCommands = {}
        /\ \A j \in 1..Len(callResults) :
              /\ callResults[j].success
              /\ callResults[j].error = "nil"
              /\ callResults[j].target = callTargets[j]
              /\ callResults[j].bytesFreed =
                    IF callCleaner = "DNS Cache" THEN 0
                    ELSE callTargets[j].sizeBytes

C2_Witness ==
    /\ callDryRun
    /\ callPc = "returned"
    /\ callErr = "nil"
    /\ callCleaner = "DNS Cache"
    /\ Len(callResults) = 2
    /\ callTargets[1].sizeBytes > 0
    /\ callResults[1].bytesFreed = 0

-----------------------------------------------------------------------------
(* Properties of the pattern scanner                                       *)

\* e lies in the tree rooted at r.
Within(r, e) == e = r \/ IsAncestor(r, e)

\* C7: no two results of one FindByPattern call are such that one path is
\* an ancestor directory of the other.
C7_NoAncestorPair ==
    \A a \in DOMAIN sentCount : \A b \in DOMAIN sentCount :
        (sentCount[a] > 0 /\ sentCount[b] > 0) => ~IsAncestor(a, b)

\* The paths C8 says are emitted: the base name matches and no ancestor
\* inside the same root matches.
TopLevelMatch(e) ==
    \E i \in 1..Len(searchDirs) :
        /\ Within(searchDirs[i], e)
        /\ Match(pattern, Base(e))
        /\ \A a \in Entries :
              (Within(searchDirs[i], a) /\ IsAncestor(a, e)) => ~Match(pattern, Base(a))

\* C8: when a FindByPattern call has completed without cancellation every
\* path has been emitted at most once, and exactly the paths whose base
\* name matches and that have no matching ancestor inside their root.
C8_EachPathOnce ==
    (scanPc = "closed" /\ ~scanCtxDone) =>
        \A e \in Entries : sentCount[e] = IF TopLevelMatch(e) THEN 1 ELSE 0

\* C9: once the context is cancelled every started traversal task
\* eventually has returned and the result channel is closed.
C9_CancelTerminates ==
    scanCtxDone ~>
        (chanClosed /\ \A i \in DOMAIN taskPc : taskPc[i] \in {"none", "returned"})

-----------------------------------------------------------------------------
(* Properties of calculateDirSize                                          *)

\* C10: whatever the interleaving, the total calculateDirSize returns is
\* the total GetDirSize computes on the same snapshot: the size of each
\* regular file has been added exactly once, nothing else has been added,
\* and no adder is still running when the total is returned.
C10_SameTotal ==
    sizePc = "returned" =>
        /\ sizeReturned = GetDirSize(snapshot)
        /\ \A k \in 1..Len(snapshot) :
              /\ addCount[k] = IF Counted(snapshot[k]) THEN 1 ELSE 0
              /\ adderPc[k] \in {"none", "done"}
        /\ sizeWg = 0 /\ sizeSem = 0 /\ ~muHeld

C10_Witness ==
    /\ sizePc = "returned"
    /\ peak = AdderSlots
    /\ Cardinality({k \in 1..Len(snapshot) : Counted(snapshot[k])}) > AdderSlots
    /\ \E k \in 1..Len(snapshot) : ~Counted(snapshot[k])
    /\ sizeReturned > 3


-----------------------------------------------------------------------------
(* Properties of CleanLevel.AllowsSafety                                   *)

\* The tiers the spec permits at each defined level.
Permitted(cl) ==
    CASE cl = Conservative -> {Safe}
      [] cl = Standard -> {Safe, Moderate}
      [] cl = Aggressive -> SafetyValues

\* C11: at the three defined levels AllowsSafety answers true exactly for
\* Safe at Conservative, for Safe and Moderate at Standard and for every
\* safety value at Aggressive, and a tier permitted at one level is
\* permitted at every higher level.
C11_AllowsTable ==
    (gateAsked /\ gateLevel \in CleanLevels) =>
        /\ gateAnswer = (gateSafety \in Permitted(gateLevel))
        /\ gateAnswer =>
              \A higher \in CleanLevels :
                  higher >= gateLevel => AllowsSafety(higher, gateSafety)

C11_Witness ==
    gateAsked /\ gateLevel = Standard /\ gateSafety = Moderate /\ gateAnswer = TRUE

\* C12: at every level value other than Conservative, Standard and
\* Aggressive AllowsSafety answers false, whatever the safety value.
C12_FailClosed ==
    (gateAsked /\ gateLevel \notin CleanLevels) => gateAnswer = FALSE

C12_Witness ==
    gateAsked /\ gateLevel = Aggressive + 1 /\ gateSafety = Safe /\ gateAnswer = FALSE


-----------------------------------------------------------------------------
(* Properties of one Clean call                                            *)

\* The results are those of the first Len(res) targets, in order.
IsPrefixOf(res, targets) ==
    /\ Len(res) <= Len(targets)
    /\ \A i \in 1..Len(res) : res[i].target = targets[i]

\* C13 as stated: every Clean call returns one result per input target, in
\* input order.
C13_OnePerTarget ==
    callPc = "returned" =>
        (Len(callResults) = Len(callTargets) /\ IsPrefixOf(callResults, callTargets))

\* C13 amended: a Clean call that returns a nil error returns one result
\* per input target, in input order; a call that returns an error returns
\* it because its context is done, from a cleaner that looks at its
\* context, with the results of the first k >= 1 targets in input order.
C13_OnePerProcessedTarget ==
    callPc = "returned" =>
        /\ IsPrefixOf(callResults, callTargets)
        /\ callErr = "nil" => Len(callResults) = Len(callTargets)
        /\ callErr # "nil" =>
              (ctxDone /\ ChecksContext(callCleaner) /\ Len(callResults) >= 1)

C13_Witness ==
    /\ callPc = "returned" /\ callErr = "nil" /\ ~callDryRun
    /\ Len(callTargets) = 2 /\ callTargets[1] # callTargets[2]
    /\ Len(callResults) = 2 /\ ~callResults[1].success

\* C15: once the context is done no removal and no destructive command is
\* started by the call, so a call entered with a done context removes
\* nothing.
C15_NoRemovalAfterCancel ==
    [][ctxDone => (callRemoved' = callRemoved /\ callCommands' = callCommands)]_vars


-----------------------------------------------------------------------------
(* Properties of the commands                                              *)

CleanFailed == \E e \in collectorErrors : e[1] = "clean"

C16_CollectorErrorsReported ==
    runPc = "done" =>
        \A e \in collectorErrors : e[1] \in {"detect", "scan"} => e \in warnings

\* C19: report, and smart in a dry run, call no Clean and remove nothing.
C19_ReportAndSmartDryCleanNothing ==
    (command = "report" \/ (command = "smart" /\ runDry)) =>
        (runCleanCalls = {} /\ runRemoved = {} /\ runResults = << >>)

C19_Witness ==
    /\ command = "smart" /\ runDry /\ runPc = "done"
    /\ TotalTargets(runTargets) = MaxTargets


-----------------------------------------------------------------------------
(* Properties of Scanner.SetWorkers                                        *)

RECURSIVE LastPositive(_, _)
\* The last positive element of args[1..k], or the default width if there
\* is none.
LastPositive(args, k) ==
    IF k = 0 THEN DefaultWorkers
    ELSE IF args[k] > 0 THEN args[k]
    ELSE LastPositive(args, k - 1)

\* C20: SetWorkers(n) with n <= 0 leaves the width as it was and with
\* n > 0 sets it to n, so after any sequence of calls on a new scanner the
\* width is at least 1 and is the last positive argument, or the initial 4
\* if there was none.
C20_WidthIsLastPositive ==
    /\ workers >= 1
    /\ workers = LastPositive(calls, Len(calls))
    /\ Len(calls) > 0 =>
          workers = (IF calls[Len(calls)] > 0 THEN calls[Len(calls)]
                     ELSE LastPositive(calls, Len(calls) - 1))

C20_Witness ==
    /\ Len(calls) = MaxCalls /\ calls[1] = 1 /\ calls[2] = MaxWorkers
    /\ calls[MaxCalls] < 0 /\ workers = MaxWorkers


-----------------------------------------------------------------------------
(* Properties of FindByPattern's worker pool                               *)

AllTasksReturned == \A i \in 1..Len(searchDirs) : taskPc[i] = "returned"

\* C17: without cancellation and with a consumer that keeps receiving, a
\* started FindByPattern call closes its channel, whatever the number of
\* roots and the width; the channel is closed only after every root task
\* has returned, and once it is closed the goroutine takes no further step
\* (no second close).
C17_ScanCloses ==
    /\ (scanPc = "check") ~> (chanClosed \/ scanCtxDone)
    /\ [](chanClosed /\ ~scanCtxDone => (AllTasksReturned /\ wgCount = 0))
    /\ [][chanClosed => (chanClosed' /\ scanPc' = scanPc)]_vars

C17_Witness ==
    /\ chanClosed /\ ~scanCtxDone /\ AllTasksReturned
    /\ Len(searchDirs) = MaxRoots /\ workers = 1
    /\ \E e \in Entries : sentCount[e] >= 2

RunningTasks == {i \in DOMAIN taskPc : taskPc[i] \in {"visit", "send"}}

StartedTasks == {i \in DOMAIN taskPc : taskPc[i] # "none"}

\* C18: the root tasks running at the same time never exceed the worker
\* width, a task is started for the roots the loop has passed and for no
\* other, and a call that ends without cancellation has started exactly
\* one task for each entry of searchDirs.
C18_BoundedTasks ==
    /\ Cardinality(RunningTasks) <= workers
    /\ semCount <= workers
    /\ scanPc # "idle" => StartedTasks = 1..(dirIdx - 1)
    /\ (scanPc = "closed" /\ ~scanCtxDone) =>
          (StartedTasks = 1..Len(searchDirs) /\ AllTasksReturned)

C18_Witness ==
    /\ workers = MaxWorkers /\ Cardinality(RunningTasks) = MaxWorkers
    /\ ~scanCtxDone


\* C25: in every interleaving, cancellation included, the channel is closed
\* only after every task that was started has returned, and no task ever
\* attempts a send on the closed channel.
C25_ClosedAfterTasks ==
    /\ chanClosed => \A i \in DOMAIN taskPc : taskPc[i] \in {"none", "returned"}
    /\ ~Crashed


\* C26: in every CleanResult a Clean call produces, Success is true exactly
\* when Error is nil, and a failed result reports BytesFreed = 0.
C26_FailedFreesNothing ==
    \A i \in 1..Len(callResults) :
        /\ callResults[i].success <=> (callResults[i].error = "nil")
        /\ ~callResults[i].success => callResults[i].bytesFreed = 0


-----------------------------------------------------------------------------
(* Properties of the root set, GetDirSize, the scan of unreadable entries, *)
(* ParseCleanLevel and the estimation                                      *)

\* C21: every root a scanner holds is a directory that exists, whether it
\* came from the default candidates, from the caller's list at construction
\* or from AddSearchDir.
C21_RootsAreDirectories ==
    \A i \in 1..Len(searchDirs) : searchDirs[i] \in Dirs

\* The entries of a walk that are files.
FileRanks(w) == {k \in 1..Len(w) : w[k].kind = "file"}

RECURSIVE LengthsOver(_, _)
\* The sum of the lengths of the entries of w at the ranks in S.
LengthsOver(w, S) ==
    IF S = {} THEN 0
    ELSE LET k == CHOOSE x \in S : TRUE
         IN w[k].bytes + LengthsOver(w, S \ {k})

\* C22: GetDirSize returns no error; for a file path it returns the file's
\* length, for an empty directory 0, and for a directory the sum of the
\* lengths of the files beneath it, directories and unreadable entries
\* contributing 0.
C22_DirSizeIsFileSum ==
    gdPc = "returned" =>
        /\ gdErr = "nil"
        /\ gdSize = LengthsOver(gdWalk, FileRanks(gdWalk))
        /\ gdWalk[1].kind = "file" => gdSize = gdWalk[1].bytes
        /\ (Len(gdWalk) = 1 /\ gdWalk[1].kind = "dir") => gdSize = 0

\* GetDirSize has returned for a directory that holds a sub-directory, an
\* unreadable entry and a file.
C22_Witness ==
    /\ gdPc = "returned"
    /\ Len(gdWalk) = 4
    /\ gdWalk[1].kind = "dir"
    /\ \E k \in 2..4 : gdWalk[k].kind = "dir"
    /\ \E k \in 2..4 : gdWalk[k].kind = "err"
    /\ \E k \in 2..4 : gdWalk[k].kind = "file" /\ gdSize = gdWalk[k].bytes

\* C23: an entry that cannot be read is never emitted as a match.
C23_UnreadableNeverEmitted ==
    \A e \in Unreadable : e \in DOMAIN sentCount => sentCount[e] = 0

LevelNames == {"conservative", "standard", "aggressive"}

\* C24: ParseCleanLevel accepts exactly "conservative", "standard" and
\* "aggressive", each mapped to its level, and fails on every other string;
\* clean and report then return before any Detect, Scan or Clean.
C24_ParseExact ==
    (command \in {"clean", "report"} /\ runPc # "parse") =>
        /\ (runReturn = "invalid clean level") <=> (levelFlag \notin LevelNames)
        /\ levelFlag = "conservative" => runLevel = Conservative
        /\ levelFlag = "standard" => runLevel = Standard
        /\ levelFlag = "aggressive" => runLevel = Aggressive
        /\ levelFlag \notin LevelNames =>
              /\ runPc = "done"
              /\ runIdx = 1
              /\ DOMAIN runTargets = {}
              /\ collectorErrors = {}
              /\ warnings = {}
              /\ runResults = << >>
              /\ runCleanCalls = {}
              /\ runRemoved = {}

\* clean has returned the error of ParseCleanLevel for --level Standard.
C24_Witness ==
    /\ command = "clean"
    /\ levelFlag = "Standard"
    /\ runPc = "done"
    /\ runReturn = "invalid clean level"

\* C27: once the estimation is printed its totals are the sums over every
\* bucket of the target map, and its item total is the count of the
\* confirmation prompt.
C27_EstimationTotals ==
    (pc # "scan") =>
        /\ EstimationItems(targetsByDomain) = TotalTargets(targetsByDomain)
        /\ EstimationBytes(targetsByDomain) =
              SumBytes(targetsByDomain, DOMAIN targetsByDomain)


-----------------------------------------------------------------------------
(* Properties of the TUI model                                             *)

AnySelected == \E k \in 1..Len(items) : items[k].selected

\* The targets of the selected items.
SelectedRanks == {k \in 1..Len(items) : items[k].selected}

RECURSIVE TargetsOver(_)
TargetsOver(S) ==
    IF S = {} THEN 0
    ELSE LET k == CHOOSE x \in S : TRUE
         IN items[k].targets + TargetsOver(S \ {k})

\* C28: Enter in StateSelect moves to StateConfirm exactly when an item is
\* selected; in StateConfirm y or Y moves to StateCleaning and n, N, q or
\* ctrl+c back to StateSelect; StateCleaning is entered only by y or Y in
\* StateConfirm with an item selected, StateDone only from StateCleaning,
\* and totalItems is then at least 1.
C28_EnterAndConfirm ==
    [][/\ (state = "StateSelect" /\ lastMsg' = "enter") =>
              state' = (IF AnySelected THEN "StateConfirm" ELSE "StateSelect")
       /\ (state = "StateConfirm" /\ lastMsg' \in {"y", "Y"}) =>
              state' = "StateCleaning"
       /\ (state = "StateConfirm" /\ lastMsg' \in {"n", "N", "q", "ctrl+c"}) =>
              state' = "StateSelect"
       /\ (state' = "StateCleaning" /\ state # "StateCleaning") =>
              (state = "StateConfirm" /\ lastMsg' \in {"y", "Y"} /\ AnySelected)
       /\ (state' = "StateDone" /\ state # "StateDone") => state = "StateCleaning"
       /\ state' \in {"StateCleaning", "StateDone"} => totalItems' >= 1
      ]_vars

\* The model is done after the operator cleared the first of two items and
\* confirmed.
C28_Witness ==
    /\ state = "StateDone"
    /\ Len(items) = 2
    /\ ~items[1].selected
    /\ items[2].selected
    /\ totalItems = items[2].targets

C30_CleaningIgnoresKeys ==
    [][/\ (state = "StateCleaning" /\ lastMsg' \in Keys) =>
              UNCHANGED <<state, items, cleaning, cleanIndex, totalItems,
                          cleanedSize, quitting>>
       /\ (quitting' /\ ~quitting) =>
              \/ state = "StateSelect" /\ lastMsg' \in {"q", "ctrl+c"}
              \/ state = "StateDone" /\ lastMsg' \in {"q", "ctrl+c", "enter"}
      ]_vars

\* ctrl+c was the last message handled, in StateCleaning, part of the
\* targets being cleaned.
C30_Witness ==
    /\ state = "StateCleaning"
    /\ lastMsg = "ctrl+c"
    /\ cleanIndex = 1
    /\ totalItems > 1
    /\ ~quitting

====
